---- MODULE Spec2Model ----
(***************************************************************************)
(* A model of src/app.py: the disease classifier, the numeric              *)
(* normalisation of the summary route, the contingency statistics, the     *)
(* ingestion router (AdvancedParser), the age binning and the report       *)
(* generator.                                                              *)
(*                                                                         *)
(* Text.  A Python str is modelled as a sequence of one-character          *)
(* strings.  A printable ASCII character stands for itself, and so do the  *)
(* four characters written with an escape: "\t" (U+0009), "\n" (U+000A),   *)
(* "\f" (U+000C) and "\r" (U+000D).  Any other character is written        *)
(* "Uxxxx", its Unicode code point in four hexadecimal digits (the module  *)
(* is ASCII outside comments): U+000B is "U000B", U+00A0 is "U00A0".  So   *)
(* the str '肝炎' is <<"U809D", "U708E">>, and `x in name` on two strs is  *)
(* the contiguous-subsequence test Contains.                               *)
(*                                                                         *)
(* Numbers.  An int or float is <<kind, s, man, exp>>, see the section     *)
(* Numbers.                                                                *)
(***************************************************************************)
EXTENDS Integers, Sequences, FiniteSets, TLC

VARIABLES
  pc,       \* position of the running call: "call" before it, "done" after it;
            \* "loop" / "done" for parse_files
  arg,      \* the argument(s) of the function under check
  ret,      \* what the call returned, or the exception it raised
  files,    \* parse_files: the batch, a sequence of uploaded files
  idx,      \* parse_files: number of files of the batch already processed
  data,     \* AdvancedParser.data : role -> table or None
  geojson,  \* AdvancedParser.geojson
  logs,     \* parse_files: the local list `logs`
  observed  \* the installed pandas: FALSE before pandas 3, TRUE from pandas 3
            \* on.  It is the default of groupby's parameter `observed`; from
            \* pandas 3 on, too, astype(str) keeps a missing value missing and
            \* a column does not take values of another dtype in place

vars == <<pc, arg, ret, files, idx, data, geojson, logs, observed>>

\* Python's None, and a slot or result holding nothing.  A slot that holds a
\* value v is <<v>>.
None == <<>>

\* The variables a specification does not use keep one fixed value.
Idle == "idle"

----------------------------------------------------------------------------
(* Sequences and text *)

\* All sequences over S of length 0..n.
SeqsUpTo(S, n) == UNION {[1..k -> S] : k \in 0..n}

\* Python `pat in s` for two strs.
Contains(pat, s) ==
  \E k \in 0..(Len(s) - Len(pat)) : SubSeq(s, k + 1, k + Len(pat)) = pat

\* Python s.endswith(suffix).
EndsWith(s, suffix) ==
  /\ Len(s) >= Len(suffix)
  /\ SubSeq(s, Len(s) - Len(suffix) + 1, Len(s)) = suffix

\* Python "".join(parts) for a sequence of strs.
RECURSIVE Join(_)
Join(parts) == IF parts = <<>> THEN <<>> ELSE Head(parts) \o Join(Tail(parts))

\* The elements of a sequence, as a set.
Range(s) == {s[k] : k \in 1..Len(s)}

\* The index of the first TRUE of a sequence of booleans, or 0: with one
\* boolean per column, next((c for c in df.columns if ...), None).
FirstTrue(flags) ==
  IF \E k \in 1..Len(flags) : flags[k]
  THEN CHOOSE k \in 1..Len(flags) : flags[k] /\ \A j \in 1..(k - 1) : ~flags[j]
  ELSE 0

\* Python s.replace(old, "") for a one-character old.
RemoveChar(s, c) == SelectSeq(s, LAMBDA x : x # c)

\* The characters str.strip() removes, those str.isspace() holds for:
\* U+0009..U+000D, U+001C..U+001F, U+0020, U+0085, U+00A0, U+1680,
\* U+2000..U+200A, U+2028, U+2029, U+202F, U+205F, U+3000.
Whitespace ==
  {"\t", "\n", "U000B", "\f", "\r", "U001C", "U001D", "U001E", "U001F", " ",
   "U0085", "U00A0", "U1680",
   "U2000", "U2001", "U2002", "U2003", "U2004", "U2005", "U2006", "U2007",
   "U2008", "U2009", "U200A", "U2028", "U2029", "U202F", "U205F", "U3000"}

\* Python s.lstrip(chars) and s.rstrip(chars), chars given as a set.
RECURSIVE LStrip(_, _)
LStrip(s, chars) ==
  IF s # <<>> /\ Head(s) \in chars THEN LStrip(Tail(s), chars) ELSE s

RECURSIVE RStrip(_, _)
RStrip(s, chars) ==
  IF s # <<>> /\ s[Len(s)] \in chars THEN RStrip(SubSeq(s, 1, Len(s) - 1), chars) ELSE s

\* Python s.strip().
Strip(s) == RStrip(LStrip(s, Whitespace), Whitespace)

----------------------------------------------------------------------------
(* 2. Disease classifier *)

\* DISEASE_CLASS['甲类']: TierA
DISEASE_CLASS_jia ==
  << <<"U9F20", "U75AB">>,   \* 鼠疫
     <<"U970D", "U4E71">> >>   \* 霍乱

\* DISEASE_CLASS['乙类']: TierB
DISEASE_CLASS_yi ==
  << <<"U4F20", "U67D3", "U6027", "U975E", "U5178", "U578B", "U80BA", "U708E">>,   \* 传染性非典型肺炎
     <<"U827E", "U6ECB", "U75C5">>,   \* 艾滋病
     <<"U75C5", "U6BD2", "U6027", "U809D", "U708E">>,   \* 病毒性肝炎
     <<"U810A", "U9AD3", "U7070", "U8D28", "U708E">>,   \* 脊髓灰质炎
     <<"U4EBA", "U611F", "U67D3", "U9AD8", "U81F4", "U75C5", "U6027", "U79BD", "U6D41", "U611F">>,   \* 人感染高致病性禽流感
     <<"U9EBB", "U75B9">>,   \* 麻疹
     <<"U6D41", "U884C", "U6027", "U51FA", "U8840", "U70ED">>,   \* 流行性出血热
     <<"U72C2", "U72AC", "U75C5">>,   \* 狂犬病
     <<"U6D41", "U884C", "U6027", "U4E59", "U578B", "U8111", "U708E">>,   \* 流行性乙型脑炎
     <<"U767B", "U9769", "U70ED">>,   \* 登革热
     <<"U70AD", "U75BD">>,   \* 炭疽
     <<"U7EC6", "U83CC", "U6027", "U75E2", "U75BE">>,   \* 细菌性痢疾
     <<"U963F", "U7C73", "U5DF4", "U6027", "U75E2", "U75BE">>,   \* 阿米巴性痢疾
     <<"U80BA", "U7ED3", "U6838">>,   \* 肺结核
     <<"U4F24", "U5BD2">>,   \* 伤寒
     <<"U526F", "U4F24", "U5BD2">>,   \* 副伤寒
     <<"U6D41", "U884C", "U6027", "U8111", "U810A", "U9AD3", "U819C", "U708E">>,   \* 流行性脑脊髓膜炎
     <<"U767E", "U65E5", "U54B3">>,   \* 百日咳
     <<"U767D", "U5589">>,   \* 白喉
     <<"U65B0", "U751F", "U513F", "U7834", "U4F24", "U98CE">>,   \* 新生儿破伤风
     <<"U7329", "U7EA2", "U70ED">>,   \* 猩红热
     <<"U5E03", "U9C81", "U6C0F", "U83CC", "U75C5">>,   \* 布鲁氏菌病
     <<"U6DCB", "U75C5">>,   \* 淋病
     <<"U6885", "U6BD2">>,   \* 梅毒
     <<"U94A9", "U7AEF", "U87BA", "U65CB", "U4F53", "U75C5">>,   \* 钩端螺旋体病
     <<"U8840", "U5438", "U866B", "U75C5">>,   \* 血吸虫病
     <<"U759F", "U75BE">>,   \* 疟疾
     <<"U65B0", "U578B", "U51A0", "U72B6", "U75C5", "U6BD2", "U611F", "U67D3">>,   \* 新型冠状病毒感染
     <<"U65B0", "U51A0", "U75C5", "U6BD2", "U611F", "U67D3">>,   \* 新冠病毒感染
     <<"U4EBA", "U611F", "U67D3", "H", "7", "N", "9", "U79BD", "U6D41", "U611F">>,   \* 人感染H7N9禽流感
     <<"U7334", "U75D8">> >>   \* 猴痘

\* DISEASE_CLASS['丙类']: TierC
DISEASE_CLASS_bing ==
  << <<"U6D41", "U884C", "U6027", "U611F", "U5192">>,   \* 流行性感冒
     <<"U6D41", "U884C", "U6027", "U816E", "U817A", "U708E">>,   \* 流行性腮腺炎
     <<"U98CE", "U75B9">>,   \* 风疹
     <<"U6025", "U6027", "U51FA", "U8840", "U6027", "U7ED3", "U819C", "U708E">>,   \* 急性出血性结膜炎
     <<"U9EBB", "U98CE", "U75C5">>,   \* 麻风病
     <<"U6D41", "U884C", "U6027", "U6591", "U75B9", "U4F24", "U5BD2">>,   \* 流行性斑疹伤寒
     <<"U5730", "U65B9", "U6027", "U6591", "U75B9", "U4F24", "U5BD2">>,   \* 地方性斑疹伤寒
     <<"U9ED1", "U70ED", "U75C5">>,   \* 黑热病
     <<"U5305", "U866B", "U75C5">>,   \* 包虫病
     <<"U4E1D", "U866B", "U75C5">>,   \* 丝虫病
     <<"U9664", "U970D", "U4E71", "U3001", "U7EC6", "U83CC", "U6027", "U75E2", "U75BE", "U3001", "U4F24", "U5BD2", "U548C", "U526F", "U4F24", "U5BD2", "U4EE5", "U5916", "U7684", "U611F", "U67D3", "U6027", "U8179", "U6CFB", "U75C5">>,   \* 除霍乱、细菌性痢疾、伤寒和副伤寒以外的感染性腹泻病
     <<"U624B", "U8DB3", "U53E3", "U75C5">>,   \* 手足口病
     <<"U5176", "U5B83", "U611F", "U67D3", "U6027", "U8179", "U6CFB", "U75C5">>,   \* 其它感染性腹泻病
     <<"U5176", "U4ED6", "U611F", "U67D3", "U6027", "U8179", "U6CFB", "U75C5">> >>   \* 其他感染性腹泻病

\* The four values get_disease_class returns.
JIA  == <<"U7532", "U7C7B">>   \* '甲类'  TierA
YI   == <<"U4E59", "U7C7B">>   \* '乙类'  TierB
BING == <<"U4E19", "U7C7B">>   \* '丙类'  TierC
QITA == <<"U5176", "U4ED6">>   \* '其他'  Unclassified

\* ['肝炎', '梅毒', '炭疽', '艾滋']
YiKeywords ==
  { <<"U809D", "U708E">>, <<"U6885", "U6BD2">>, <<"U70AD", "U75BD">>, <<"U827E", "U6ECB">> }

\* ['腹泻', '斑疹']
BingKeywords == { <<"U8179", "U6CFB">>, <<"U6591", "U75B9">> }

\* name = str(name).replace(' ', '').strip()
NormalizeName(name) == Strip(RemoveChar(name, " "))

\* A plausible slip: the TierC test placed before the TierB test.
get_disease_class_BingFirst(name) ==
  LET n == NormalizeName(name) IN
  IF n \in Range(DISEASE_CLASS_jia) THEN JIA
  ELSE IF n \in Range(DISEASE_CLASS_bing) \/ \E x \in BingKeywords : Contains(x, n) THEN BING
  ELSE IF n \in Range(DISEASE_CLASS_yi) \/ \E x \in YiKeywords : Contains(x, n) THEN YI
  ELSE QITA

get_disease_class(name) ==
  LET n == NormalizeName(name) IN
  IF n \in Range(DISEASE_CLASS_jia) THEN JIA
  ELSE IF n \in Range(DISEASE_CLASS_yi) \/ \E x \in YiKeywords : Contains(x, n) THEN YI
  ELSE IF n \in Range(DISEASE_CLASS_bing) \/ \E x \in BingKeywords : Contains(x, n) THEN BING
  ELSE QITA

\* --- the classifier run on bounded inputs ---

MaxNameLen == 3

\* Characters the generated names are built from: a space, a line feed, a
\* no-break space, an ideographic space, and 鼠 疫 肝 炎 腹 泻 麻 疹.
NameChars ==
  {" ", "\n", "U00A0", "U3000",
   "U9F20", "U75AB", "U809D", "U708E", "U8179", "U6CFB", "U9EBB", "U75B9"}

ExactNames ==
  Range(DISEASE_CLASS_jia) \cup Range(DISEASE_CLASS_yi) \cup Range(DISEASE_CLASS_bing)

\* A listed name followed by a keyword, e.g. '其他感染性腹泻病' + '肝炎'.
ExtendedNames == { n \o k : n \in ExactNames, k \in YiKeywords \cup BingKeywords }

\* Every generated name, every listed name and every extended name, and each
\* of the latter two padded with whitespace (a space and an ideographic space;
\* a vertical tab and an em space before, CR LF after) and split by a space.
ClassInputs ==
  SeqsUpTo(NameChars, MaxNameLen)
    \cup ExactNames \cup ExtendedNames
    \cup { <<" ">> \o n \o <<"U3000">> : n \in ExactNames \cup ExtendedNames }
    \cup { <<"U000B", "U2003">> \o n \o <<"\r", "\n">> : n \in ExactNames \cup ExtendedNames }
    \cup { <<Head(n), " ">> \o Tail(n) : n \in ExactNames \cup ExtendedNames }

InitClass ==
  /\ pc = "call" /\ arg \in ClassInputs /\ ret = None
  /\ files = Idle /\ idx = 0 /\ data = Idle /\ geojson = Idle /\ logs = Idle
  /\ observed = Idle

Call_get_disease_class ==
  /\ pc = "call"
  /\ ret' = get_disease_class(arg)
  /\ pc' = "done"
  /\ UNCHANGED <<arg, files, idx, data, geojson, logs, observed>>

NextClass == Call_get_disease_class

SpecClass == InitClass /\ [][NextClass]_vars

HasYiKeyword(n) == \E x \in YiKeywords : Contains(x, n)
HasBingKeyword(n) == \E x \in BingKeywords : Contains(x, n)

\* C8: get_disease_class is total and decides by the normalized name with the
\* precedence TierA exact, then TierB (exact or keyword), then TierC (exact or
\* keyword), then Unclassified: a TierA name gives TierA; a TierB name, or a
\* name holding a TierB keyword and not a TierA name, gives TierB; a TierC name
\* gives TierC; a name no rule matches gives Unclassified.
C8_ClassPrecedence ==
  pc = "done" =>
    LET n == NormalizeName(arg) IN
    /\ ret \in {JIA, YI, BING, QITA}
    /\ (n \in Range(DISEASE_CLASS_jia) => ret = JIA)
    /\ (n \notin Range(DISEASE_CLASS_jia)
          /\ (n \in Range(DISEASE_CLASS_yi) \/ HasYiKeyword(n)) => ret = YI)
    /\ (n \in Range(DISEASE_CLASS_bing) => ret = BING)
    /\ (n \notin Range(DISEASE_CLASS_jia) /\ n \notin Range(DISEASE_CLASS_yi)
          /\ ~HasYiKeyword(n) /\ HasBingKeyword(n) => ret = BING)
    /\ (n \notin ExactNames /\ ~HasYiKeyword(n) /\ ~HasBingKeyword(n) => ret = QITA)

\* A name that holds a TierC keyword and a TierB keyword, written with spaces,
\* has been classified TierB.
C8_Witness ==
  /\ pc = "done"
  /\ arg # NormalizeName(arg)
  /\ HasYiKeyword(NormalizeName(arg)) /\ HasBingKeyword(NormalizeName(arg))
  /\ ret = YI

----------------------------------------------------------------------------
(* Numbers.  An int or float value is <<kind, s, man, exp>>.  A finite value
   is <<"num", s, man, exp>>, the IEEE 754 binary64 number s * man * 2^exp:
   s is its sign (-1, 0 or 1), man an odd natural number of at most 53 binary
   digits and exp an integer; zero is <<"num", 0, <<>>, 0>>.  NaN is
   <<"nan", 0, <<>>, 0>>, +inf is <<"inf", 1, <<>>, 0>> and -inf is
   <<"inf", -1, <<>>, 0>>.  A natural number of any size (man is one) is the
   sequence of its digits in base 2^15, least significant first, with no zero
   digit at the top: 0 is <<>>, 5 is <<5>>, 2^15 + 1 is <<1, 1>>.
   An int is held as the float of the same value (the same number up to 2^53),
   and -0.0 is not told apart from 0.0. *)

Abs(n) == IF n < 0 THEN 0 - n ELSE n

Sgn(n) == IF n > 0 THEN 1 ELSE IF n < 0 THEN -1 ELSE 0

Min(a, b) == IF a < b THEN a ELSE b

Max(a, b) == IF a < b THEN b ELSE a

RECURSIVE Pow10(_)
Pow10(k) == IF k = 0 THEN 1 ELSE 10 * Pow10(k - 1)

\* 2^0 .. 2^30
PowersOfTwo ==
  << 1, 2, 4, 8, 16, 32, 64, 128, 256, 512, 1024, 2048, 4096, 8192, 16384,
     32768, 65536, 131072, 262144, 524288, 1048576, 2097152, 4194304,
     8388608, 16777216, 33554432, 67108864, 134217728, 268435456,
     536870912, 1073741824 >>

Pow2(k) == PowersOfTwo[k + 1]

DigitChars == <<"0", "1", "2", "3", "4", "5", "6", "7", "8", "9">>

\* Decimal text of a natural number: f"{n}".
RECURSIVE IntToStr(_)
IntToStr(n) ==
  IF n < 10 THEN <<DigitChars[n + 1]>> ELSE IntToStr(n \div 10) \o <<DigitChars[(n % 10) + 1]>>

----------------------------------------------------------------------------
(* Natural numbers of any size *)

LimbBits == 15

Limb == 32768   \* 2^15

\* Digit i of x (1 is the lowest), 0 above the top.
LimbAt(x, i) == IF i <= Len(x) THEN x[i] ELSE 0

\* x without its lowest digit.
Rest(x) == IF x = <<>> THEN <<>> ELSE Tail(x)

\* x without zero digits at the top.
BigTrim(x) == SubSeq(x, 1, Cardinality({i \in 1..Len(x) : \E j \in i..Len(x) : x[j] # 0}))

\* The natural number n (below 2^31).
BigOfInt(n) == BigTrim(<<n % Limb, (n \div Limb) % Limb, n \div (Limb * Limb)>>)

\* The integer x denotes (below 2^31).
RECURSIVE BigToInt(_)
BigToInt(x) == IF x = <<>> THEN 0 ELSE Head(x) + Limb * BigToInt(Tail(x))

\* The number of binary digits of a natural number n.
BitLen(n) == Cardinality({k \in 0..30 : Pow2(k) <= n})

BigBitLen(x) ==
  LET S == {LimbBits * (j - 1) + BitLen(x[j]) : j \in {i \in 1..Len(x) : x[i] # 0}}
  IN IF S = {} THEN 0 ELSE CHOOSE n \in S : \A m \in S : m <= n

\* Binary digit k of x (digit 0 is the lowest).
BigBit(x, k) ==
  IF k < 0 \/ (k \div LimbBits) + 1 > Len(x) THEN 0
  ELSE (x[(k \div LimbBits) + 1] \div Pow2(k % LimbBits)) % 2

\* Is one of the s lowest binary digits of x a 1.
BigLowNonZero(x, s) ==
  \E k \in 0..((IF s < LimbBits * Len(x) THEN s ELSE LimbBits * Len(x)) - 1) : BigBit(x, k) = 1

\* The number of zero binary digits below the lowest 1 of x, x # 0.
BigLowZeros(x) ==
  LET j == CHOOSE i \in 1..Len(x) : x[i] # 0 /\ \A k \in 1..(i - 1) : x[k] = 0
  IN LimbBits * (j - 1) + Cardinality({k \in 1..(LimbBits - 1) : x[j] % Pow2(k) = 0})

\* floor(x / 2^s)
BigShr(x, s) ==
  BigTrim([j \in 1..Max(0, Len(x) - (s \div LimbBits)) |->
             (x[j + (s \div LimbBits)] \div Pow2(s % LimbBits))
               + (LimbAt(x, j + (s \div LimbBits) + 1) % Pow2(s % LimbBits))
                   * Pow2(LimbBits - (s % LimbBits))])

\* x * m + carry, for 0 < m < 2^15 and carry below 2^15.
RECURSIVE BigMulSmall(_, _, _)
BigMulSmall(x, m, carry) ==
  IF x = <<>> THEN (IF carry = 0 THEN <<>> ELSE <<carry>>)
  ELSE <<(Head(x) * m + carry) % Limb>>
         \o BigMulSmall(Tail(x), m, (Head(x) * m + carry) \div Limb)

\* x * m for 0 <= m < 2^15.
BigTimes(x, m) == IF m = 0 THEN <<>> ELSE BigMulSmall(x, m, 0)

\* x * 2^s
BigShl(x, s) ==
  IF x = <<>> THEN <<>>
  ELSE [j \in 1..(s \div LimbBits) |-> 0] \o BigMulSmall(x, Pow2(s % LimbBits), 0)

\* x + y + c, c a carry of 0 or 1.
RECURSIVE BigAddCarry(_, _, _)
BigAddCarry(x, y, c) ==
  IF x = <<>> /\ y = <<>> THEN (IF c = 0 THEN <<>> ELSE <<c>>)
  ELSE <<(LimbAt(x, 1) + LimbAt(y, 1) + c) % Limb>>
         \o BigAddCarry(Rest(x), Rest(y), (LimbAt(x, 1) + LimbAt(y, 1) + c) \div Limb)

BigAdd(x, y) == BigAddCarry(x, y, 0)

\* x - y - b digit by digit, b a borrow of 0 or 1, for x >= y + b.
RECURSIVE BigSubBorrow(_, _, _)
BigSubBorrow(x, y, b) ==
  IF x = <<>> THEN <<>>
  ELSE <<(Head(x) - LimbAt(y, 1) - b + Limb) % Limb>>
         \o BigSubBorrow(Tail(x), Rest(y), IF Head(x) - LimbAt(y, 1) - b < 0 THEN 1 ELSE 0)

\* x - y for x >= y.
BigSub(x, y) == BigTrim(BigSubBorrow(x, y, 0))

\* -1, 0 or 1 as x is below, equal to or above y.
BigCmp(x, y) ==
  IF Len(x) # Len(y) THEN Sgn(Len(x) - Len(y))
  ELSE IF x = y THEN 0
  ELSE LET i == CHOOSE k \in 1..Len(x) : x[k] # y[k] /\ \A j \in (k + 1)..Len(x) : x[j] = y[j]
       IN Sgn(x[i] - y[i])

\* The sum of the products x * y[j] * 2^(15 * (j - 1)) for j in lo..hi, the two
\* halves of the range summed apart.
RECURSIVE BigMulRange(_, _, _, _)
BigMulRange(x, y, lo, hi) ==
  IF lo = hi THEN [j \in 1..(lo - 1) |-> 0] \o BigTimes(x, y[lo])
  ELSE BigAdd(BigMulRange(x, y, lo, (lo + hi) \div 2),
              BigMulRange(x, y, ((lo + hi) \div 2) + 1, hi))

\* x * y before the zero digits at its top are dropped.
BigMulRaw(x, y) == IF y = <<>> THEN <<>> ELSE BigMulRange(x, y, 1, Len(y))

BigMul(x, y) == BigTrim(BigMulRaw(x, y))

BigSquare(x) == BigMul(x, x)

\* 10^k
RECURSIVE BigPow10(_)
BigPow10(k) ==
  IF k < 4 THEN <<Pow10(k)>>
  ELSE IF k % 2 = 0 THEN BigSquare(BigPow10(k \div 2))
  ELSE BigTimes(BigPow10(k - 1), 10)

\* <<q, r>> with x = q * d + r and r < d, for 0 < d < 2^15 (q may have zero
\* digits at its top).
RECURSIVE BigDivSmallRaw(_, _)
BigDivSmallRaw(x, d) ==
  IF x = <<>> THEN << <<>>, 0 >>
  ELSE LET hi == BigDivSmallRaw(Tail(x), d)
       IN << <<(hi[2] * Limb + Head(x)) \div d>> \o hi[1], (hi[2] * Limb + Head(x)) % d >>

\* The quotient floor(x / d), given <<q, r>>.
Quotient(qr) == BigTrim(qr[1])

\* Long division, one digit of the quotient at a time from the top.  The
\* divisor d has its top digit at least 2^14, so that the quotient of the two
\* top digits of what is left by the top digit of d is the digit sought or
\* exceeds it by at most 2.
DigitGuess(ext, d) ==
  Min(Limb - 1, (LimbAt(ext, Len(d) + 1) * Limb + LimbAt(ext, Len(d))) \div d[Len(d)])

\* The largest k of guess, guess - 1, guess - 2 with k * d <= ext.
QuotientDigit(ext, d, guess) ==
  IF BigCmp(BigTimes(d, guess), ext) <= 0 THEN guess
  ELSE IF BigCmp(BigTimes(d, guess - 1), ext) <= 0 THEN guess - 1
  ELSE guess - 2

DivWithDigit(ext, qs, d, q) == << <<q>> \o qs, BigSub(ext, BigTimes(d, q)) >>

DivWithExt(ext, qs, d) == DivWithDigit(ext, qs, d, QuotientDigit(ext, d, DigitGuess(ext, d)))

\* hi is <<q, r>> for the digits above the digit limb: nothing left and a zero
\* digit give the quotient digit 0, anything else is divided.
DivStep(hi, limb, d) ==
  IF hi[2] = <<>> /\ limb = 0 THEN << <<0>> \o hi[1], <<>> >>
  ELSE DivWithExt(BigTrim(<<limb>> \o hi[2]), hi[1], d)

\* <<q, r>> for the digits of n from digit k up: fewer digits than d has are
\* all remainder.
RECURSIVE BigDivFrom(_, _, _)
BigDivFrom(n, d, k) ==
  IF Len(n) - k + 1 < Len(d) THEN << <<>>, BigTrim(SubSeq(n, k, Len(n))) >>
  ELSE DivStep(BigDivFrom(n, d, k + 1), n[k], d)

\* <<q, r>> with n = q * d + r and r < d (q may have zero digits at its top).
BigDivMod(n, d) == BigDivFrom(n, d, 1)

\* Decimal text of a natural number.
RECURSIVE BigToStr(_)
RECURSIVE BigToStrParts(_)
BigToStr(x) == IF Len(x) <= 1 THEN IntToStr(LimbAt(x, 1)) ELSE BigToStrParts(BigDivSmallRaw(x, 10000))

BigToStrParts(qr) ==
  BigToStr(Quotient(qr))
    \o <<DigitChars[(qr[2] \div 1000) + 1], DigitChars[((qr[2] \div 100) % 10) + 1],
         DigitChars[((qr[2] \div 10) % 10) + 1], DigitChars[(qr[2] % 10) + 1]>>

----------------------------------------------------------------------------
(* IEEE 754 binary64 arithmetic: every operation yields the double nearest to
   its exact result, ties to even. *)

MantissaBits == 53

Zero     == <<"num", 0, <<>>, 0>>
FloatNaN == <<"nan", 0, <<>>, 0>>
PosInf   == <<"inf", 1, <<>>, 0>>
NegInf   == <<"inf", -1, <<>>, 0>>

Inf(s) == IF s < 0 THEN NegInf ELSE PosInf

IsNaN(x)    == x[1] = "nan"
IsFinite(x) == x[1] = "num"

\* Does cutting the n lowest binary digits of man round up: the first digit
\* cut is 1, and a later one is or what is kept is odd.
RoundsUp(man, n) == BigBit(man, n - 1) = 1 /\ (BigLowNonZero(man, n - 1) \/ BigBit(man, n) = 1)

\* <<man', exp + n>>: man * 2^exp with the n lowest binary digits of man
\* rounded away.
RoundedAt(man, exp, n) ==
  IF n <= 0 THEN <<man, exp>>
  ELSE <<BigAdd(BigShr(man, n), IF RoundsUp(man, n) THEN <<1>> ELSE <<>>), exp + n>>

\* The number s * me[1] * 2^me[2] with me[1], not zero, made odd; an infinity
\* from 2^1024 on.
Normal(s, me, low) ==
  IF BigBitLen(me[1]) + me[2] > 1024 THEN Inf(s)
  ELSE <<"num", s, BigShr(me[1], low), me[2] + low>>

Canonical(s, me) == IF me[1] = <<>> THEN Zero ELSE Normal(s, me, BigLowZeros(me[1]))

\* The double nearest to s * man * 2^exp: man cut to 53 significant binary
\* digits, and to fewer below 2^-1022 where doubles are 2^-1074 apart.
Number(s, man, exp) ==
  Canonical(s, RoundedAt(man, exp, Max(BigBitLen(man) - MantissaBits, (0 - 1074) - exp)))

\* -x
Neg(x) == <<x[1], 0 - x[2], x[3], x[4]>>

\* The position above the top binary digit of a finite x # 0.
Top(x) == BigBitLen(x[3]) + x[4]

\* -1, 0 or 1 as |x| is below, equal to or above |y|, for finite x, y # 0.
CompareAbs(x, y) ==
  IF Top(x) # Top(y) THEN Sgn(Top(x) - Top(y))
  ELSE BigCmp(BigShl(x[3], x[4] - Min(x[4], y[4])), BigShl(y[3], y[4] - Min(x[4], y[4])))

\* -1, 0 or 1 as x is below, equal to or above y; neither is NaN.
Compare(x, y) ==
  IF x[2] # y[2] THEN Sgn(x[2] - y[2])
  ELSE IF x[2] = 0 THEN 0
  ELSE IF x[1] = "inf" \/ y[1] = "inf"
  THEN x[2] * (IF x[1] = y[1] THEN 0 ELSE IF x[1] = "inf" THEN 1 ELSE -1)
  ELSE x[2] * CompareAbs(x, y)

\* x < y and x <= y as Python and NumPy decide them: False when either is NaN.
Less(x, y) == ~IsNaN(x) /\ ~IsNaN(y) /\ Compare(x, y) < 0
Leq(x, y)  == ~IsNaN(x) /\ ~IsNaN(y) /\ Compare(x, y) <= 0

\* sx * mx * 2^lo + sy * my * 2^lo, rounded.
AddAligned(sx, mx, sy, my, lo) ==
  IF sx = sy THEN Number(sx, BigAdd(mx, my), lo)
  ELSE IF BigCmp(mx, my) >= 0 THEN Number(sx, BigSub(mx, my), lo)
  ELSE Number(sy, BigSub(my, mx), lo)

\* x + y in float arithmetic.  When the top digits of x and y are more than 64
\* places apart the smaller is below half the gap between the larger and the
\* doubles next to it, and the sum is the larger.
Add(x, y) ==
  IF IsNaN(x) \/ IsNaN(y) THEN FloatNaN
  ELSE IF x[1] = "inf" THEN (IF y[1] = "inf" /\ y[2] # x[2] THEN FloatNaN ELSE x)
  ELSE IF y[1] = "inf" THEN y
  ELSE IF x[2] = 0 THEN y
  ELSE IF y[2] = 0 THEN x
  ELSE IF Top(x) - Top(y) > 64 THEN x
  ELSE IF Top(y) - Top(x) > 64 THEN y
  ELSE AddAligned(x[2], BigShl(x[3], x[4] - Min(x[4], y[4])),
                  y[2], BigShl(y[3], y[4] - Min(x[4], y[4])), Min(x[4], y[4]))

\* x * y in float arithmetic.
Mul(x, y) ==
  IF IsNaN(x) \/ IsNaN(y) THEN FloatNaN
  ELSE IF x[1] = "inf" \/ y[1] = "inf"
  THEN (IF x[2] = 0 \/ y[2] = 0 THEN FloatNaN ELSE Inf(x[2] * y[2]))
  ELSE IF x[2] = 0 \/ y[2] = 0 THEN Zero
  ELSE Number(x[2] * y[2], BigMul(x[3], y[3]), x[4] + y[4])

\* s * (n / d) * 2^e for the quotient and remainder qr of n by d: the quotient
\* with one more binary digit that tells whether a remainder is left, rounded.
ShiftedQuotient(s, qr, e) ==
  Number(s, BigMulSmall(Quotient(qr), 2, IF qr[2] = <<>> THEN 0 ELSE 1), e - 1)

\* s * (a / b) * 2^e rounded, for naturals a, b > 0: b shifted by norm places
\* to bring its top digit to 2^14 or above, and a by extra more, to have a
\* quotient of 56 binary digits or more.
DivDouble(s, a, b, e, norm, extra) ==
  ShiftedQuotient(s, BigDivMod(BigShl(a, norm + extra), BigShl(b, norm)), e - extra)

RatioDouble(s, a, b, e) ==
  DivDouble(s, a, b, e, (LimbBits - (BigBitLen(b) % LimbBits)) % LimbBits,
            Max(0, BigBitLen(b) + 56 - BigBitLen(a)))

\* x / y in float arithmetic, as NumPy divides: a zero divisor gives NaN or an
\* infinity.
Div(x, y) ==
  IF IsNaN(x) \/ IsNaN(y) THEN FloatNaN
  ELSE IF x[1] = "inf" THEN (IF y[1] = "inf" THEN FloatNaN
                             ELSE Inf(x[2] * (IF y[2] < 0 THEN -1 ELSE 1)))
  ELSE IF y[1] = "inf" THEN Zero
  ELSE IF y[2] = 0 THEN (IF x[2] = 0 THEN FloatNaN ELSE Inf(x[2]))
  ELSE IF x[2] = 0 THEN Zero
  ELSE RatioDouble(x[2] * y[2], x[3], y[3], x[4] - y[4])

\* The float a decimal literal m * 10^e denotes (|m| below 2^31).
Num(m, e) ==
  IF m = 0 THEN Zero
  ELSE IF e >= 0 THEN Number(Sgn(m), BigMul(BigOfInt(Abs(m)), BigPow10(e)), 0)
  ELSE RatioDouble(Sgn(m), BigOfInt(Abs(m)), BigPow10(0 - e), 0)

\* The int n.
IntNum(n) == Num(n, 0)

Hundred == IntNum(100)

\* res += a[i] for every i in turn.
RECURSIVE AddAll(_, _)
AddAll(res, a) == IF a = <<>> THEN res ELSE AddAll(Add(res, Head(a)), Tail(a))

\* sum(axis=1) over the cells of one row of fewer than 8 columns: the cells
\* added from the left, starting from 0.
Sum(q) == AddAll(Zero, q)

\* The partial sum r[j] of NumPy's pairwise summation over blocks groups of 8:
\* a[j] + a[j + 8] + a[j + 16] + ...
Lane(a, j, blocks) == AddAll(a[j], [i \in 1..(blocks - 1) |-> a[j + (8 * i)]])

\* ndarray.sum() over a 1-d array of floats, as NumPy's add.reduce sums
\* (pairwise summation): fewer than 8 elements are added from the left; up to
\* 128 elements are summed in 8 interleaved partial sums that are then added
\* in pairs, and the elements left over added to the result; a longer array is
\* split in two halves summed the same way.
RECURSIVE PairwiseSum(_)
PairwiseSum(a) ==
  IF Len(a) < 8 THEN AddAll(Zero, a)
  ELSE IF Len(a) <= 128
  THEN AddAll(Add(Add(Add(Lane(a, 1, Len(a) \div 8), Lane(a, 2, Len(a) \div 8)),
                      Add(Lane(a, 3, Len(a) \div 8), Lane(a, 4, Len(a) \div 8))),
                  Add(Add(Lane(a, 5, Len(a) \div 8), Lane(a, 6, Len(a) \div 8)),
                      Add(Lane(a, 7, Len(a) \div 8), Lane(a, 8, Len(a) \div 8)))),
              SubSeq(a, (8 * (Len(a) \div 8)) + 1, Len(a)))
  ELSE Add(PairwiseSum(SubSeq(a, 1, (Len(a) \div 2) - ((Len(a) \div 2) % 8))),
           PairwiseSum(SubSeq(a, (Len(a) \div 2) - ((Len(a) \div 2) % 8) + 1, Len(a))))

\* Series.sum(): NaN counted as 0 (skipna=True), the values summed as an array.
SeriesSum(q) == PairwiseSum([i \in 1..Len(q) |-> IF IsNaN(q[i]) THEN Zero ELSE q[i]])

\* int(x) for a finite x: truncation toward zero.
Trunc(x) == IF x[4] >= 0 THEN x ELSE Canonical(x[2], <<BigShr(x[3], 0 - x[4]), 0>>)

\* The integer a finite x with no fraction denotes (below 2^31 in size).
IntOf(x) == x[2] * BigToInt(BigShl(x[3], x[4]))

\* f"{n}" for an int n, held as a number.
IntText(x) == (IF x[2] < 0 THEN <<"-">> ELSE <<>>) \o BigToStr(BigShl(x[3], x[4]))

\* The exception int(x) raises, or "none".
IntRaises(x) ==
  IF IsNaN(x) THEN "ValueError" ELSE IF ~IsFinite(x) THEN "OverflowError" ELSE "none"

\* np.rint(x): the integer nearest to x, ties to even.
Rint(x) == IF ~IsFinite(x) \/ x[4] >= 0 THEN x ELSE Canonical(x[2], RoundedAt(x[3], x[4], 0 - x[4]))

\* x.round(2) of NumPy: rint(x * 100) / 100.
NpRound2(x) == Div(Rint(Mul(x, Hundred)), Hundred)

\* The natural number me[1] * 2^me[2].
Shifted(me) == BigShl(me[1], me[2])

\* f"{x:.2f}" of a finite x as the number of hundredths printed: the exact
\* value of |x| times 100, rounded to the nearest integer, ties to even.
Hundredths(x) == Shifted(RoundedAt(BigTimes(x[3], 100), x[4], 0 - x[4]))

\* The digits of qr[1] * 100 + qr[2] hundredths: '14.37' for <<14, 37>>.
HundredthsText(qr) ==
  BigToStr(Quotient(qr)) \o <<".", DigitChars[(qr[2] \div 10) + 1], DigitChars[(qr[2] % 10) + 1]>>

\* The digits of h hundredths: '14.37' for 1437.
Format2f(h) == HundredthsText(BigDivSmallRaw(h, 100))


----------------------------------------------------------------------------
(* str(x) of a float: the shortest decimal numeral that reads back as x *)

\* |x| = Numer(x) / Denom(x), for a finite x # 0.
Numer(x) == BigShl(x[3], Max(x[4], 0))
Denom(x) == BigShl(<<1>>, Max(0 - x[4], 0))

\* |x| * 10^p = ScaledNumer(x, p) / ScaledDenom(x, p)
ScaledNumer(x, p) == IF p > 0 THEN BigMul(Numer(x), BigPow10(p)) ELSE Numer(x)
ScaledDenom(x, p) == IF p < 0 THEN BigMul(Denom(x), BigPow10(0 - p)) ELSE Denom(x)

\* Is |x| >= 10^e.
AtLeastPow10(x, e) == BigCmp(ScaledNumer(x, 0 - e), ScaledDenom(x, 0 - e)) >= 0

\* floor(log10(|x|)), given a guess g that is it or one off.
Log10Near(x, g) ==
  IF ~AtLeastPow10(x, g) THEN g - 1 ELSE IF AtLeastPow10(x, g + 1) THEN g + 1 ELSE g

\* floor(log10(|x|)): 2^(Top(x) - 1) <= |x| < 2^Top(x), and log10(2) is 0.30103.
Log10Floor(x) == Log10Near(x, ((Top(x) - 1) * 30103) \div 100000)

\* The places b is shifted by to bring its top digit to 2^14 or above.
Normalizer(b) == (LimbBits - (BigBitLen(b) % LimbBits)) % LimbBits

\* <<q, r, d>> with a * 2^k = q * d + r, d = b * 2^k and r < d, k = Normalizer(b).
DivModNat(a, b) ==
  BigDivMod(BigShl(a, Normalizer(b)), BigShl(b, Normalizer(b))) \o <<BigShl(b, Normalizer(b))>>

\* The double the decimal numeral c * 10^(-p) reads as, c a natural number.
DecimalDouble(c, p) ==
  IF p <= 0 THEN Number(1, BigMul(c, BigPow10(0 - p)), 0)
  ELSE RatioDouble(1, c, BigPow10(p), 0)

\* s without the '0' characters at its end.
RECURSIVE StripZeros(_)
StripZeros(s) ==
  IF s # <<>> /\ s[Len(s)] = "0" THEN StripZeros(SubSeq(s, 1, Len(s) - 1)) ELSE s

\* <<digits, decpt>>: the numeral 0.digits * 10^decpt for the n-digit c with
\* |x| near c * 10^(e - n + 1).
Digits10(c, e, n) == <<StripZeros(BigToStr(c)), e + 1 + (Len(BigToStr(c)) - n)>>

\* The n-digit numeral that reads back as x, or <<>> when none does: of the two
\* n-digit numerals around |x| (q below, q + 1 above; half tells which is
\* nearer) the nearer one that reads back as x, the even one at a tie.
ShortestPick(x, e, n, q, half, okLo, okHi) ==
  IF okLo /\ (~okHi \/ half < 0 \/ (half = 0 /\ LimbAt(q, 1) % 2 = 0)) THEN Digits10(q, e, n)
  ELSE IF okHi THEN Digits10(BigAdd(q, <<1>>), e, n)
  ELSE <<>>

ShortestOf(x, e, n, q, half) ==
  ShortestPick(x, e, n, q, half,
               DecimalDouble(q, n - 1 - e) = <<"num", 1, x[3], x[4]>>,
               DecimalDouble(BigAdd(q, <<1>>), n - 1 - e) = <<"num", 1, x[3], x[4]>>)

ShortestAt(x, e, n, qrd) ==
  ShortestOf(x, e, n, Quotient(qrd), BigCmp(BigTimes(qrd[2], 2), qrd[3]))

ShortestWith(x, e, n) ==
  ShortestAt(x, e, n, DivModNat(ScaledNumer(x, n - 1 - e), ScaledDenom(x, n - 1 - e)))

\* The shortest digits that read back as x: the numeral of the first n that
\* has one.
FirstShortest(c) ==
  c[CHOOSE n \in 1..Len(c) : c[n] # <<>> /\ \A m \in 1..(n - 1) : c[m] = <<>>]

\* A double is told from every other by 17 significant digits.
ShortestFrom(x, e) == FirstShortest([n \in 1..17 |-> ShortestWith(x, e, n)] \o <<>>)

\* The exponent of a numeral in exponent form: a sign and two digits or more.
ExponentText(k) ==
  (IF k < 0 THEN <<"e", "-">> ELSE <<"e", "+">>)
    \o (IF Abs(k) < 10 THEN <<"0">> ELSE <<>>) \o IntToStr(Abs(k))

\* repr of the float 0.ds * 10^decpt: exponent form when decpt <= -4 or
\* decpt > 16, else positional with a digit after the point.
ReprText(ds, decpt) ==
  IF decpt <= 0 - 4 \/ decpt > 16
  THEN <<ds[1]>> \o (IF Len(ds) > 1 THEN <<".">> \o Tail(ds) ELSE <<>>) \o ExponentText(decpt - 1)
  ELSE IF decpt <= 0 THEN <<"0", ".">> \o [k \in 1..(0 - decpt) |-> "0"] \o ds
  ELSE IF decpt >= Len(ds) THEN ds \o [k \in 1..(decpt - Len(ds)) |-> "0"] \o <<".", "0">>
  ELSE SubSeq(ds, 1, decpt) \o <<".">> \o SubSeq(ds, decpt + 1, Len(ds))

ReprOf(dd) == ReprText(dd[1], dd[2])

\* str(x) of a float x.
FloatRepr(x) ==
  IF IsNaN(x) THEN <<"n", "a", "n">>
  ELSE IF ~IsFinite(x) THEN (IF x[2] < 0 THEN <<"-", "i", "n", "f">> ELSE <<"i", "n", "f">>)
  ELSE IF x[2] = 0 THEN <<"0", ".", "0">>
  ELSE (IF x[2] < 0 THEN <<"-">> ELSE <<>>) \o ReprOf(ShortestFrom(x, Log10Floor(x)))

\* Has the finite x no fraction.
IsIntegral(x) == x[1] = "num" /\ x[4] >= 0

\* str(x) of a number x: of the int when x is one (float tells that x is a
\* float whatever its value), else of the float.
NumberText(x, float) == IF IsIntegral(x) /\ ~float THEN IntText(x) ELSE FloatRepr(x)

\* Is a cell a number and not a str (a str is a sequence of characters, and
\* "num", "nan" and "inf" are not characters).
IsNumber(cell) == Len(cell) = 4 /\ cell[1] \in {"num", "nan", "inf"}
----------------------------------------------------------------------------
(* Numerals: pd.to_numeric(errors='coerce') on one cell *)

Digits == {"0", "1", "2", "3", "4", "5", "6", "7", "8", "9"}

DigitValue(c) == CHOOSE d \in 0..9 : DigitChars[d + 1] = c

\* The value of a str of decimal digits (leading zeros allowed; 0 for '').
RECURSIVE DigitsValue(_)
DigitsValue(s) ==
  IF s = <<>> THEN 0 ELSE 10 * DigitsValue(SubSeq(s, 1, Len(s) - 1)) + DigitValue(s[Len(s)])

\* Every character is a digit (true of '').
IsDigits(s) == \A k \in 1..Len(s) : s[k] \in Digits

\* Python s.replace(old, new) for one-character old and new.
ReplaceChar(s, old, new) == [k \in 1..Len(s) |-> IF s[k] = old THEN new ELSE s[k]]

\* The blanks the numeral parser of pandas skips at both ends (isspace_ascii).
AsciiSpace == {" ", "\t", "\n", "U000B", "\f", "\r"}

\* t without its sign.
Unsigned(t) == IF t # <<>> /\ t[1] \in {"+", "-"} THEN Tail(t) ELSE t

\* The digits before and after the point at position dot of mant (0: no point).
PointFields(neg, mant, dot, hasExp, ex) ==
  [neg      |-> neg,
   ip       |-> IF dot = 0 THEN mant ELSE SubSeq(mant, 1, dot - 1),
   fp       |-> IF dot = 0 THEN <<>> ELSE SubSeq(mant, dot + 1, Len(mant)),
   point    |-> dot # 0,
   hasExp   |-> hasExp,
   exNeg    |-> ex # <<>> /\ ex[1] = "-",
   exDigits |-> Unsigned(ex)]

\* The mantissa mant (what stands before the exponent mark) split at its first
\* point.
MantissaFields(neg, mant, hasExp, ex) ==
  PointFields(neg, mant, FirstTrue([k \in 1..Len(mant) |-> mant[k] = "."]), hasExp, ex)

\* The unsigned numeral u split at its first e or E (position ePos, 0: none).
ExponentFields(neg, u, ePos) ==
  MantissaFields(neg,
                 IF ePos = 0 THEN u ELSE SubSeq(u, 1, ePos - 1),
                 ePos # 0,
                 IF ePos = 0 THEN <<>> ELSE SubSeq(u, ePos + 1, Len(u)))

\* The parts of a numeral t that has no blanks around it.
SignFields(t) ==
  ExponentFields(t # <<>> /\ t[1] = "-", Unsigned(t),
                 FirstTrue([k \in 1..Len(Unsigned(t)) |-> Unsigned(t)[k] \in {"e", "E"}]))

\* The parts of a numeral as pd.to_numeric reads a str: blanks at both ends,
\* a sign, digits with at most one point, and an exponent e/E with a sign and
\* digits.
NumeralParts(s) == SignFields(RStrip(LStrip(s, AsciiSpace), AsciiSpace))

\* 'inf' and 'infinity' in any case, with or without a sign, no blanks: 0 when
\* s is none of them, else the sign of the infinity.
InfLiteral(s) ==
  LET upper(c) == CASE c = "i" -> "I" [] c = "n" -> "N" [] c = "f" -> "F"
                    [] c = "t" -> "T" [] c = "y" -> "Y" [] OTHER -> c
      is(w, x) == Len(w) = Len(x) /\ \A k \in 1..Len(w) : w[k] \in {x[k], upper(x[k])}
      word(w)  == is(w, <<"i", "n", "f">>) \/ is(w, <<"i", "n", "f", "i", "n", "i", "t", "y">>)
  IN IF word(s) THEN 1
     ELSE IF s # <<>> /\ s[1] = "+" /\ word(Tail(s)) THEN 1
     ELSE IF s # <<>> /\ s[1] = "-" /\ word(Tail(s)) THEN -1
     ELSE 0

\* Does pd.to_numeric(errors='coerce') read the str s as a number: a numeral
\* (at least one digit before the exponent and, if it has an exponent, at
\* least one digit in it) or an infinity.  Anything else, '' and 'nan'
\* included, becomes NaN.
ParsesAsNumber(s) ==
  LET p == NumeralParts(s) IN
  \/ /\ IsDigits(p.ip) /\ IsDigits(p.fp) /\ Len(p.ip) + Len(p.fp) >= 1
     /\ (p.hasExp => p.exDigits # <<>> /\ IsDigits(p.exDigits))
  \/ InfLiteral(s) # 0

\* The natural number a str of decimal digits denotes.
RECURSIVE BigDigits(_)
BigDigits(s) ==
  IF s = <<>> THEN <<>>
  ELSE BigMulSmall(BigDigits(SubSeq(s, 1, Len(s) - 1)), 10, DigitValue(s[Len(s)]))

\* number = number * 10. + (*p - '0')
DigitStep(number, c) == Add(Mul(number, IntNum(10)), IntNum(DigitValue(c)))

\* The digits of a numeral accumulated from the left, each step in float
\* arithmetic (exact for the first 15 digits); ds has at most 17 digits.
Accumulated(ds) ==
  IF Len(ds) <= 15 THEN Number(1, BigDigits(ds), 0)
  ELSE IF Len(ds) = 16 THEN DigitStep(Number(1, BigDigits(SubSeq(ds, 1, 15)), 0), ds[16])
  ELSE DigitStep(DigitStep(Number(1, BigDigits(SubSeq(ds, 1, 15)), 0), ds[16]), ds[17])

\* The entry 1e<k> of the parser's table of powers of ten, a double.
PowerOfTen(k) == Number(1, BigPow10(k), 0)

\* number scaled by 10^exponent as the parser scales it: a multiplication or
\* a division by a power of ten from its table, two divisions below 1e-308,
\* and HUGE_VAL for an exponent above 308.
Scaled(number, exponent) ==
  IF exponent > 308 THEN PosInf
  ELSE IF exponent > 0 THEN Mul(number, PowerOfTen(exponent))
  ELSE IF exponent < 0 - 616 THEN Zero
  ELSE IF exponent < 0 - 308
  THEN Div(Div(number, PowerOfTen((0 - 308) - exponent)), PowerOfTen(308))
  ELSE Div(number, PowerOfTen(0 - exponent))

\* A result of HUGE_VAL is out of range (ERANGE): the str is not read as a
\* number.
InRange(x) == IF IsFinite(x) THEN x ELSE FloatNaN

\* The value of a numeral of parts p: the first 17 of its digits as a number
\* (an integer digit past them raises the decimal exponent by one, a fraction
\* digit past them is dropped), scaled by the power of ten the exponent, the
\* digits used after the point taken off, gives.  The exponent has at most 9
\* digits.
NumeralValue(p, exponent) ==
  InRange(Scaled(Accumulated(SubSeq(p.ip \o p.fp, 1, Min(17, Len(p.ip) + Len(p.fp)))),
                 exponent + Max(0, Len(p.ip) - 17) - Max(0, Min(Len(p.fp), 17 - Len(p.ip)))))

SignedValue(p) ==
  (IF p.neg THEN Neg(NumeralValue(p, IF p.exNeg THEN 0 - DigitsValue(p.exDigits)
                                     ELSE DigitsValue(p.exDigits)))
   ELSE NumeralValue(p, IF p.exNeg THEN 0 - DigitsValue(p.exDigits)
                        ELSE DigitsValue(p.exDigits)))

\* The number a str that parses denotes, as pandas' parser (precise_xstrtod)
\* computes it; NaN for a numeral it rejects as out of range.
NumberValue(s) ==
  IF InfLiteral(s) > 0 THEN PosInf
  ELSE IF InfLiteral(s) < 0 THEN NegInf
  ELSE SignedValue(NumeralParts(s))

\* Does the parser read the str s as an int (its flag maybe_int stays set): a
\* numeral with neither a point nor an exponent.
IntegerNumeral(s) ==
  ParsesAsNumber(s) /\ InfLiteral(s) = 0 /\ ~NumeralParts(s).point /\ ~NumeralParts(s).hasExp

\* The magnitude n of an int and its sign, as pd.to_numeric tells ints apart:
\* "sint" in [-2^63, 0), "int" in [0, 2^63), "uint" in [2^63, 2^64), and
\* "float" past them, where the value is kept as a float.
IntRange(neg, n) ==
  IF neg /\ n # <<>>
  THEN (IF BigBitLen(n) <= 63 \/ (BigBitLen(n) = 64 /\ BigLowZeros(n) = 63) THEN "sint"
        ELSE "float")
  ELSE IF BigBitLen(n) <= 63 THEN "int"
  ELSE IF BigBitLen(n) <= 64 THEN "uint"
  ELSE "float"

\* What one cell of a column of objects makes pd.to_numeric see: a float
\* ("float": a missing value, a number with a fraction, a str that is not the
\* numeral of an int or does not parse) or an int of one of three ranges.
NumeralKind(cell) ==
  IF cell = <<>> THEN "float"
  ELSE IF ~IsNumber(cell) /\ ~IntegerNumeral(cell) THEN "float"
  ELSE IF IsNumber(cell) /\ ~IsIntegral(cell) THEN "float"
  ELSE IntRange(IF IsNumber(cell) THEN cell[2] < 0 ELSE NumeralParts(cell).neg,
                IF IsNumber(cell) THEN BigShl(cell[3], cell[4]) ELSE BigDigits(NumeralParts(cell).ip))

\* int(val) for the numeral of an int: every digit counts.
IntegerValue(s) ==
  Canonical(IF NumeralParts(s).neg THEN -1 ELSE 1, <<BigDigits(NumeralParts(s).ip), 0>>)

\* pd.to_numeric(cell, errors='coerce') for a cell given as a str.
to_numeric(s) ==
  IF IsNumber(s) THEN s ELSE IF ParsesAsNumber(s) THEN NumberValue(s) ELSE FloatNaN

\* .fillna(0)
fillna0(x) == IF IsNaN(x) THEN IntNum(0) ELSE x

\* pd.to_numeric(cell, errors='coerce') followed by .fillna(0).
to_numeric_fillna0(s) == fillna0(to_numeric(s))

----------------------------------------------------------------------------
(* Tables.  A DataFrame is
     [columns |-> <<header, ...>>, rows |-> <<row, ...>>, dtypes |-> <<dtype, ...>>],
   a header a str, a row a sequence of cells, one per column, and a dtype the
   dtype of a column: "int64", "uint64", "float64", "category" (what pd.cut
   makes) or "object" (strs and Python objects; the dtype `str` of pandas 3 is
   not told from it).  A cell is
     - blank: the empty sequence, for an empty cell of the file, which pandas
       reads as the missing value NaN;
     - a str: the sequence of its characters (never empty);
     - a number: <<kind, s, man, exp>>, for a numeric cell of the file and for
       a cell of a column the code has converted with pd.to_numeric.
   The cells of an int64 or uint64 column are numbers without a fraction, the
   cells of a float64 column numbers (floats, with a fraction or without) or
   blank.  A number in a column of objects is a Python int when it has no
   fraction and a float when it has one.  Ints are below 2^63 in size unless
   pd.to_numeric made them. *)

NumericDTypes == {"int64", "uint64", "float64"}

DataFrame(columns, rows, dtypes) == [columns |-> columns, rows |-> rows, dtypes |-> dtypes]

NCols(df) == Len(df.columns)
NRows(df) == Len(df.rows)

\* The position of a header among a table's columns, or 0.
ColumnOf(tbl, header) == FirstTrue([k \in 1..NCols(tbl) |-> tbl.columns[k] = header])

\* df with column j replaced by values (one per row) of a dtype.
SetColumn(df, j, values, dtype) ==
  [df EXCEPT !.rows = [r \in 1..NRows(df) |-> [df.rows[r] EXCEPT ![j] = values[r]]] \o <<>>,
             !.dtypes[j] = dtype]

\* df[header] = values: the column replaced when df has it, appended when not.
AssignColumn(df, header, values, dtype) ==
  IF ColumnOf(df, header) # 0 THEN SetColumn(df, ColumnOf(df, header), values, dtype)
  ELSE DataFrame(Append(df.columns, header),
                 [r \in 1..NRows(df) |-> Append(df.rows[r], values[r])] \o <<>>,
                 Append(df.dtypes, dtype))

\* The cells of column j, top to bottom (written  [..] \o <<>>  so that the
\* cells are evaluated once, not at each use).
Column(df, j) == [r \in 1..NRows(df) |-> df.rows[r][j]] \o <<>>

\* Is a cell the missing value: blank, or the number NaN.
Missing(cell) == cell = <<>> \/ (IsNumber(cell) /\ IsNaN(cell))

\* The dtype pd.read_csv and pd.read_excel give a column with these cells
\* when the file spells every number without a fraction as an int: numeric
\* when there is a row and every cell is a number or blank, float64 when one
\* of them is blank or is a number with a fraction (or not finite).
InferredDType(cells) ==
  IF cells # <<>> /\ \A r \in 1..Len(cells) : cells[r] = <<>> \/ IsNumber(cells[r])
  THEN (IF \E r \in 1..Len(cells) : cells[r] = <<>> \/ ~IsIntegral(cells[r])
        THEN "float64" ELSE "int64")
  ELSE "object"

\* The table read from such a file.
Table(columns, rows) ==
  DataFrame(columns, rows,
            [j \in 1..Len(columns) |-> InferredDType([r \in 1..Len(rows) |-> rows[r][j]])])

\* Is column j of dtype float64.
FloatColumn(df, j) == df.dtypes[j] = "float64"

\* The dtype pd.to_numeric(errors='coerce') gives a column of objects with
\* these cells: float64 when a cell is a float or when there are ints both
\* below 0 and from 2^63 on, else uint64 when there is an int from 2^63 on,
\* else int64.
KindsDType(kinds) ==
  IF "float" \in kinds \/ {"uint", "sint"} \subseteq kinds THEN "float64"
  ELSE IF "uint" \in kinds THEN "uint64"
  ELSE "int64"

ObjectNumericDType(cells) == KindsDType({NumeralKind(cells[r]) : r \in 1..Len(cells)})

\* The dtype of pd.to_numeric(series, errors='coerce'): a numeric series is
\* returned as it is.
NumericDType(dtype, cells) ==
  IF dtype \in NumericDTypes THEN dtype ELSE ObjectNumericDType(cells)

\* One cell of the result, of dtype dt: a float, or the int a str spells.
NumericValue(cell, dt) ==
  IF dt = "float64" \/ IsNumber(cell) THEN to_numeric(cell) ELSE IntegerValue(cell)

\* pd.to_numeric(series, errors='coerce') for a series of a dtype with these
\* cells: the dtype and the cells of the result.
Converted(dt, cells) ==
  [dtype |-> dt, values |-> [r \in 1..Len(cells) |-> NumericValue(cells[r], dt)] \o <<>>]

Conversion(dtype, cells) == Converted(NumericDType(dtype, cells), cells)

\* df[column j] = a series
SetSeries(df, j, series) == SetColumn(df, j, series.values, series.dtype)

\* The table of these headers whose columns are these series, n cells each.
FromSeries(columns, series, n) ==
  DataFrame(columns,
            [r \in 1..n |-> [j \in 1..Len(columns) |-> series[j].values[r]] \o <<>>] \o <<>>,
            [j \in 1..Len(columns) |-> series[j].dtype] \o <<>>)

\* series.fillna(0)
FillNa0(conv) ==
  [conv EXCEPT !.values = [r \in 1..Len(conv.values) |-> fillna0(conv.values[r])] \o <<>>]

\* The dtype of DataFrame.sum(axis=1) over numeric columns of these dtypes
\* (float64 over no column).
CommonDType(dtypes) ==
  IF dtypes = {} \/ "float64" \in dtypes \/ {"int64", "uint64"} \subseteq dtypes THEN "float64"
  ELSE IF "uint64" \in dtypes THEN "uint64"
  ELSE "int64"

NAN_STR == <<"n", "a", "n">>   \* str(float('nan'))

\* str(cell): 'nan' for a blank cell (NaN), the numeral of a number (float
\* tells that the cell is a float whatever its value), a str itself.
StrOf(cell, float) ==
  IF cell = <<>> THEN NAN_STR
  ELSE IF IsNumber(cell) THEN NumberText(cell, float)
  ELSE cell

\* One cell of Series.astype(str), float telling that the Series is float64.
\* Before pandas 3 it is str(cell).  From pandas 3 on (new) the result has the
\* dtype `str`, in which a missing value stays missing.
AsStr(cell, float, new) ==
  IF new /\ Missing(cell) THEN <<>> ELSE StrOf(cell, float)

\* ord(c), for the characters the sex cells of a table are written with:
\* F, M, f, m, 不, 女, 未, 男, 知, 详.
CodePoint(c) ==
  CASE c = "F" -> 70 [] c = "M" -> 77 [] c = "f" -> 102 [] c = "m" -> 109
    [] c = "U4E0D" -> 19981 [] c = "U5973" -> 22899 [] c = "U672A" -> 26410
    [] c = "U7537" -> 30007 [] c = "U77E5" -> 30693 [] c = "U8BE6" -> 35814

\* x < y for two strs: the order of the first character they differ in, a
\* proper prefix first.
StrLess(x, y) ==
  \E k \in 1..Len(y) :
    /\ Len(x) >= k - 1
    /\ SubSeq(x, 1, k - 1) = SubSeq(y, 1, k - 1)
    /\ (Len(x) = k - 1 \/ CodePoint(x[k]) < CodePoint(y[k]))

\* sorted(S) for a set of strs.
RECURSIVE SortedStrs(_)
SortedStrs(S) ==
  IF S = {} THEN <<>>
  ELSE LET m == CHOOSE x \in S : \A y \in S : x = y \/ StrLess(x, y)
       IN <<m>> \o SortedStrs(S \ {m})

----------------------------------------------------------------------------
(* 5a. Numeric normalisation of the summary route (parse_files, summary branch) *)

\* The str astype(str) makes of a cell taken on its own: a str is itself, a
\* number with no fraction is an int, and a blank cell is left blank (it
\* becomes 'nan' or stays missing, neither of which is a numeral).
CellText(cell) == IF IsNumber(cell) THEN NumberText(cell, FALSE) ELSE cell

\* pd.to_numeric(.., errors='coerce').fillna(0) of a series of strs
NumbersOf(texts) == FillNa0(Conversion("object", texts))

\* The cleaning of a cell on its own, as the one cell of its column.
normalize_summary_cell(cell) ==
  NumbersOf(<<ReplaceChar(RemoveChar(CellText(cell), ","), "-", "0")>>).values[1]

SHU == "U6570"   \* '数'
BI  == "U6BD4"   \* '比'

\* if any(k in str(c) for k in ['数', '比'])
IsCountOrRatioHeader(c) == \E k \in {<<SHU>>, <<BI>>} : Contains(k, c)

\* The summary branch's loop body for one column header c and one of its cells.
normalize_summary_column(c, cell) ==
  IF IsCountOrRatioHeader(c) THEN normalize_summary_cell(cell) ELSE cell

\* df[c].astype(str).str.replace(',', '').str.replace('-', '0') for column j
SummaryTexts(df, j) ==
  [r \in 1..NRows(df) |->
     ReplaceChar(RemoveChar(StrOf(df.rows[r][j], FloatColumn(df, j)), ","), "-", "0")] \o <<>>

\* The summary branch's cleaning loop over the columns.
RECURSIVE NormalizeSummaryFrom(_, _)
NormalizeSummaryFrom(df, j) ==
  IF j > NCols(df) THEN df
  ELSE NormalizeSummaryFrom(
         IF IsCountOrRatioHeader(df.columns[j])
         THEN SetSeries(df, j, NumbersOf(SummaryTexts(df, j)))
         ELSE df,
         j + 1)

NormalizeSummary(df) == NormalizeSummaryFrom(df, 1)

BENQI_FABINGSHU == <<"U672C", "U671F", "U53D1", "U75C5", "U6570">>                    \* '本期发病数'
YU_SHANGQI_BI   == <<"U4E0E", "U4E0A", "U671F", "U6BD4", "UFF08", "%", "UFF09">>      \* '与上期比（%）'
YU_QUNIAN_BI    == <<"U4E0E", "U53BB", "U5E74", "U540C", "U671F", "U6BD4", "UFF08", "%", "UFF09">>  \* '与去年同期比（%）'
BINGZHONG       == <<"U75C5", "U79CD">>                                               \* '病种'

\* --- the normalisation run on bounded inputs ---

MaxCellLen == 3

CellChars == {"0", "1", "3", ",", "-", "+", ".", "e", " ", "x"}

NormHeaders == {BENQI_FABINGSHU, YU_SHANGQI_BI, BINGZHONG}

InitNorm ==
  /\ pc = "call"
  /\ arg \in [header : NormHeaders, cell : SeqsUpTo(CellChars, MaxCellLen)]
  /\ ret = None
  /\ files = Idle /\ idx = 0 /\ data = Idle /\ geojson = Idle /\ logs = Idle
  /\ observed = Idle

Call_normalize_summary_column ==
  /\ pc = "call"
  /\ ret' = normalize_summary_column(arg.header, arg.cell)
  /\ pc' = "done"
  /\ UNCHANGED <<arg, files, idx, data, geojson, logs, observed>>

NextNorm == Call_normalize_summary_column

SpecNorm == InitNorm /\ [][NextNorm]_vars

\* What the normalisation is specified to yield: separators stripped, a bare
\* dash is 0, a signed numeral is its own value with its sign, anything
\* unparsable is 0.
IntendedNumber(cell) ==
  LET s == RemoveChar(cell, ",") IN
  IF s = <<"-">> THEN IntNum(0) ELSE to_numeric_fillna0(s)

\* C5: the normalisation of a count/ratio column is total and value-preserving:
\* a numeral with thousands separators yields its value, a bare dash 0, an
\* unparsable cell 0, and a negative numeral its own negative value.
C5_ValuePreserving ==
  pc = "done" /\ IsCountOrRatioHeader(arg.header) => ret = IntendedNumber(arg.cell)

----------------------------------------------------------------------------
(* 5b. AdvancedParser.bin_ages *)

NIANLING    == <<"U5E74", "U9F84">>            \* '年龄'
ZU          == <<"U7EC4">>                     \* '组'
XING        == <<"U6027">>                     \* '性'
NIANLINGZU  == <<"U5E74", "U9F84", "U7EC4">>   \* '年龄组'
FABINGSHU   == <<"U53D1", "U75C5", "U6570">>   \* '发病数'
XINGBIE     == <<"U6027", "U522B">>            \* '性别'

BinStop    == 101   \* range(0, 101, 5)
BinWidth   == 5
LabelStop  == 96    \* range(0, 96, 5)

\* list(range(0, stop, step))
PyRange(stop, step) == [k \in 1..((stop + step - 1) \div step) |-> (k - 1) * step]

\* bins = range(0, 101, 5): the 21 edges 0, 5, ..., 100.
AgeBins == PyRange(BinStop, BinWidth)

\* labels = [f"{i}-{i+4}" for i in range(0, 96, 5)] + ["100+"]
AllAgeLabels ==
  [k \in 1..Len(PyRange(LabelStop, BinWidth)) |->
     LET i == PyRange(LabelStop, BinWidth)[k] IN IntToStr(i) \o <<"-">> \o IntToStr(i + 4)]
  \o << <<"1", "0", "0", "+">> >>

\* labels = labels[:len(bins)-1]
AgeLabels == SubSeq(AllAgeLabels, 1, Len(AgeBins) - 1)

\* pd.cut(x, bins=bins, labels=labels, right=False) for one number x: the
\* index k of the interval [bins[k], bins[k+1]) holding x, or 0 (NaN) when x
\* is NaN or lies in no interval.  The edges are BinWidth apart, so the
\* interval of an x between the first and the last edge is found by division.
CutIndex(x) ==
  IF \/ ~IsFinite(x)
     \/ Less(x, IntNum(AgeBins[1]))
     \/ Leq(IntNum(AgeBins[Len(AgeBins)]), x)
  THEN 0
  ELSE (IntOf(Trunc(x)) - AgeBins[1]) \div BinWidth + 1

\* next((c for c in df.columns if '年龄' in str(c) and '组' not in str(c)), None),
\* as a position (0 for None)
age_col(df) ==
  FirstTrue([k \in 1..NCols(df) |->
               Contains(NIANLING, df.columns[k]) /\ ~Contains(ZU, df.columns[k])])

\* next(c for c in df.columns if '性' in c), as a position (0 when there is none)
sex_col(df) == FirstTrue([k \in 1..NCols(df) |-> Contains(XING, df.columns[k])])

\* df[age_col] = pd.to_numeric(df[age_col], errors='coerce')
NumericAges(df, a) == SetSeries(df, a, Conversion(df.dtypes[a], Column(df, a)))

\* The label of interval k, NaN (a blank cell) for k = 0.
LabelAt(k) == IF k = 0 THEN <<>> ELSE AgeLabels[k]

\* df['年龄组'] = pd.cut(df[age_col], bins=bins, labels=labels, right=False)
WithAgeGroup(df, a) ==
  AssignColumn(df, NIANLINGZU, [r \in 1..NRows(df) |-> LabelAt(CutIndex(df.rows[r][a]))] \o <<>>,
               "category")

\* The rows groupby keeps: neither key is NaN.
Keyed(labels, sexes) == {r \in 1..Len(labels) : labels[r] # <<>> /\ sexes[r] # <<>>}

\* .size().unstack(fill_value=0).reset_index(): one row per age group listed,
\* one column per sex value listed, the number of rows with both.
SizeTable(groups, values, labels, sexes) ==
  DataFrame(<<NIANLINGZU>> \o values,
            [i \in 1..Len(groups) |->
               <<groups[i]>>
                 \o [j \in 1..Len(values) |->
                       IntNum(Cardinality({r \in 1..Len(labels) :
                                             labels[r] = groups[i] /\ sexes[r] = values[j]}))]],
            <<"category">> \o [j \in 1..Len(values) |-> "int64"])

\* df.groupby(['年龄组', sex_col]).size().unstack(fill_value=0).reset_index()
\* observed=True (pandas from 3.0 on): the age groups and the sex values of
\* the rows kept.  observed=False (before): every age group, and every value
\* of the sex column.
GroupSizes(labels, sexes, obs) ==
  IF obs
  THEN SizeTable(SelectSeq(AgeLabels, LAMBDA l : \E r \in Keyed(labels, sexes) : labels[r] = l),
                 SortedStrs({sexes[r] : r \in Keyed(labels, sexes)}),
                 labels, sexes)
  ELSE SizeTable(IF \A r \in 1..Len(sexes) : sexes[r] = <<>> THEN <<>> ELSE AgeLabels,
                 SortedStrs({sexes[r] : r \in 1..Len(sexes)} \ {<<>>}),
                 labels, sexes)

\* df['年龄组'].value_counts().sort_index().reset_index(): rows per category,
\* every category listed, NaN left out.
ValueCounts(labels) ==
  DataFrame(<<NIANLINGZU, FABINGSHU>>,
            [k \in 1..Len(AgeLabels) |->
               <<AgeLabels[k],
                 IntNum(Cardinality({r \in 1..Len(labels) : labels[r] = AgeLabels[k]}))>>],
            <<"category", "int64">>)

\* Lines 189-199 on the table df that has its age-group column.
GroupedAges(df, obs) ==
  [ret |-> IF sex_col(df) # 0
           THEN GroupSizes(Column(df, ColumnOf(df, NIANLINGZU)), Column(df, sex_col(df)), obs)
           ELSE ValueCounts(Column(df, ColumnOf(df, NIANLINGZU))),
   df  |-> df]

\* bin_ages(df) under a pandas whose groupby has the default observed=obs:
\* what it returns (ret) and the caller's table after the call (df), which
\* lines 184 and 188 assign into.  The headers of df are distinct strs, and the
\* sex column is not the age column.
bin_ages(df, obs) ==
  IF age_col(df) = 0 THEN [ret |-> df, df |-> df]
  ELSE GroupedAges(WithAgeGroup(NumericAges(df, age_col(df)), age_col(df)), obs)

\* --- bin_ages run on bounded inputs: a raw age column, with or without a
\* --- sex column

MaxAges == 4

AgeCells ==
  { <<"-", "1">>, <<"3">>, <<"7", ".", "5">>, <<"2", "2">>, <<"1", "0", "0">>,
    <<"1", "0", "1">>, <<"x">> }

\* The sex cells of the rows, by position: 男, 女, blank, M, 不详.
SexCells == << <<"U7537">>, <<"U5973">>, <<>>, <<"M">>, <<"U4E0D", "U8BE6">> >>

InitBin ==
  /\ pc = "call"
  /\ \E ages \in SeqsUpTo(AgeCells, MaxAges) :
       \/ arg = Table(<<NIANLING>>, [r \in 1..Len(ages) |-> <<ages[r]>>])
       \/ arg = Table(<<NIANLING, XINGBIE>>, [r \in 1..Len(ages) |-> <<ages[r], SexCells[r]>>])
  /\ ret = None
  /\ observed \in BOOLEAN
  /\ files = Idle /\ idx = 0 /\ data = Idle /\ geojson = Idle /\ logs = Idle

\* ret'.df is the caller's table after the call.
Call_bin_ages ==
  /\ pc = "call"
  /\ \E out \in {bin_ages(arg, observed)} : ret' = out.ret /\ arg' = out.df
  /\ pc' = "done"
  /\ UNCHANGED <<files, idx, data, geojson, logs, observed>>

NextBin == Call_bin_ages

SpecBin == InitBin /\ [][NextBin]_vars

\* The bin the claim gives an age: "{5*floor(a/5)}-{5*floor(a/5)+4}" on
\* [0,100), "100+" from 100 on, none (<<>>) below 0 or for NaN.
IntendedLabel(x) ==
  IF IsNaN(x) \/ Less(x, IntNum(0)) THEN <<>>
  ELSE IF Leq(IntNum(100), x) THEN <<"1", "0", "0", "+">>
  ELSE IntToStr(5 * (IntOf(Trunc(x)) \div 5)) \o <<"-">> \o IntToStr(5 * (IntOf(Trunc(x)) \div 5) + 4)

\* The count the returned table gives a label (0 when it has no such row).
BinCount(tbl, label) ==
  IF \E r \in 1..NRows(tbl) : tbl.rows[r][1] = label
  THEN IntOf(tbl.rows[CHOOSE r \in 1..NRows(tbl) : tbl.rows[r][1] = label][2])
  ELSE 0

RECURSIVE SumSeq(_)
SumSeq(q) == IF q = <<>> THEN 0 ELSE Head(q) + SumSeq(Tail(q))

\* C6: with a raw age column and no sex column, every row with age in [0,100)
\* is counted in its 5-year bin and every row with age >= 100 in the bin
\* "100+", so the counts sum to the number of rows with a non-negative age.
\* (After the call the age column of the argument holds the ages as numbers.)
C6_OverflowBin ==
  pc = "done" /\ ColumnOf(arg, XINGBIE) = 0 =>
    LET ages == [r \in 1..NRows(arg) |-> arg.rows[r][1]]
        labelled == {r \in 1..Len(ages) : IntendedLabel(ages[r]) # <<>>}
    IN
    /\ \A r \in labelled :
         BinCount(ret, IntendedLabel(ages[r]))
           = Cardinality({q \in labelled : IntendedLabel(ages[q]) = IntendedLabel(ages[r])})
    /\ SumSeq([r \in 1..NRows(ret) |-> IntOf(ret.rows[r][2])]) = Cardinality(labelled)

----------------------------------------------------------------------------
(* 3. Statistics engine: process_stats_table *)

HEJI        == <<"U5408", "U8BA1">>                          \* '合计'
GOUCHENGBI  == <<"U6784", "U6210", "U6BD4", "(", "%", ")">>  \* '构成比(%)'
CHI2_ZHI    == <<"U03C7", "U00B2", "U503C">>                 \* 'χ²值'
P_ZHI       == <<"P", "U503C">>                              \* 'P值'

\* The text f"{chi2:.2f}" and format_p_value(p) write into the first row.  The
\* numeric value of the statistic and of its p-value (a chi-square tail
\* probability) is not computed here: the cell records that a formatted
\* numeral, never the empty str, was written.
Chi2Text == <<"c", "h", "i", "2", ":", ".", "2", "f">>
PText    == <<"f", "o", "r", "m", "a", "t", "_", "p">>

\* (x / total_sum * 100).round(2)
CompositionPercent(x, total_sum) == NpRound2(Mul(Div(x, total_sum), Hundred))

\* ndarray.ravel() of a 2-d array: its rows one after the other.
RECURSIVE Flat(_)
Flat(obs) == IF obs = <<>> THEN <<>> ELSE Head(obs) \o Flat(Tail(obs))

\* The expected frequency of cell (r, c): row sum * column sum / total.
ExpectedFreq(obs, r, c) ==
  Div(Mul(PairwiseSum(obs[r]), Sum([k \in 1..Len(obs) |-> obs[k][c]])), PairwiseSum(Flat(obs)))

\* scipy.stats.chi2_contingency(observed) raises ValueError when an entry is
\* negative, when there is no entry, or when an expected frequency is zero.
Chi2ContingencyRaises(obs) ==
  \/ \E r \in 1..Len(obs) : \E c \in 1..Len(obs[r]) : Less(obs[r][c], Zero)
  \/ Flat(obs) = <<>>
  \/ \E r \in 1..Len(obs) : \E c \in 1..Len(obs[r]) : ExpectedFreq(obs, r, c) = Zero

MinValueColumns == 2   \* if len(val_cols) >= 2

\* if len(val_cols) >= 2
StatsWanted(nVal) == nVal >= MinValueColumns

\* pd.to_numeric(stats_df[c], errors='coerce').fillna(0) for column j: its
\* dtype and its cells (a str is parsed, a number is itself).
NumericCells(df, j) == FillNa0(Conversion(df.dtypes[j], Column(df, j)))

\* for c in val_cols: stats_df[c] = pd.to_numeric(stats_df[c], ...).fillna(0),
\* val_cols being every column but the first (written  [..] \o <<>>  so that
\* the cells are evaluated once, not at each use).
NumericValues(df) ==
  FromSeries(df.columns,
             <<[dtype |-> df.dtypes[1], values |-> Column(df, 1)]>> \o [c \in 1..(NCols(df) - 1) |-> NumericCells(df, c + 1)],
             NRows(df))

\* stats_df[val_cols].values: the cells of the columns the input has after its
\* first, columns 2..n of stats_df, as they are when the line runs.
ValueCells(t, n) == [r \in 1..NRows(t) |-> SubSeq(t.rows[r], 2, n)] \o <<>>

\* The value cells of the input as numbers, row by row.
InputObs(df) == ValueCells(NumericValues(df), NCols(df))

\* obs[~np.all(obs == 0, axis=1)]
NonZero(obs) == SelectSeq(obs, LAMBDA row : \E c \in 1..Len(row) : row[c] # Zero)

\* stats_df[val_cols].sum(axis=1)
RowSums(obs) == [r \in 1..Len(obs) |-> Sum(obs[r])] \o <<>>

\* stats_df['合计'] = stats_df[val_cols].sum(axis=1): the column is appended,
\* or, when the table has a column of that name, overwritten.
WithTotals(t, n) ==
  AssignColumn(t, HEJI, RowSums(ValueCells(t, n)), CommonDType({t.dtypes[j] : j \in 2..n}))

\* stats_df['构成比(%)'] = (stats_df['合计'] / total_sum * 100).round(2), given
\* the column 合计 and its sum
WithPercent(t, heji, total_sum) ==
  AssignColumn(t, GOUCHENGBI,
               [r \in 1..NRows(t) |-> CompositionPercent(heji[r], total_sum)] \o <<>>,
               "float64")

\* total_sum = stats_df['合计'].sum() and line 65
WithShares(t, heji) == WithPercent(t, heji, SeriesSum(heji))

\* Lines 64-65 on stats_df with its column 合计.
Shared(t) == WithShares(t, Column(t, ColumnOf(t, HEJI)))

\* Lines 63-65: stats_df before the statistic.
Totalled(t, n) == Shared(WithTotals(t, n))

\* stats_df.iloc[0, get_loc('χ²值')] = f"{chi2:.2f}" and the same for 'P值'
FirstRowFilled(t) ==
  [t EXCEPT !.rows[1][ColumnOf(t, CHI2_ZHI)] = Chi2Text, !.rows[1][ColumnOf(t, P_ZHI)] = PText]

\* stats_df['χ²值'] = ''; stats_df['P值'] = ''; and the two cells of row 0
WithChi2(t) ==
  FirstRowFilled(AssignColumn(AssignColumn(t, CHI2_ZHI, [r \in 1..NRows(t) |-> <<>>], "object"),
                             P_ZHI, [r \in 1..NRows(t) |-> <<>>], "object"))

\* Lines 67-77 on stats_df t and the rows obs_clean of its value cells.
StatsOf(df, t, obs_clean) ==
  IF ~(/\ StatsWanted(NCols(df) - 1)                        \* if len(val_cols) >= 2
       \* if obs_clean.sum() > 0 and obs_clean.shape[0] > 1
       /\ Less(Zero, PairwiseSum(Flat(obs_clean))) /\ Len(obs_clean) > 1)
  THEN t
  ELSE IF Chi2ContingencyRaises(obs_clean) THEN df          \* except: return df
  ELSE WithChi2(t)

\* Lines 67-69: the value cells are read after 合计 and 构成比(%) were assigned.
StatsWith(df, t) == StatsOf(df, t, NonZero(ValueCells(t, NCols(df))))

\* df has at least one column, as every table of the 'age' and 'pop' slots
\* has, and its headers are distinct; a value cell is a str (a numeric cell by
\* its text) or a number.
process_stats_table(df) == StatsWith(df, Totalled(NumericValues(df), NCols(df)))

\* --- process_stats_table run on bounded inputs: tables with no value
\* --- column, with one, and with the two the statistic needs

MaxStatRows == 3

StatCells == { <<"0">>, <<"3">>, <<"0", ".", "1">>, <<"-", "1">> }

\* Headers of the value columns: '男', '女', or '男', '合计'.
ValueHeaders == { << <<"U7537">>, <<"U5973">> >>, << <<"U7537">>, HEJI >> }

InitStats ==
  /\ pc = "call"
  /\ \E nr \in 0..MaxStatRows : \E nv \in 0..MinValueColumns : \E headers \in ValueHeaders :
     \E cells \in [1..nr -> [1..nv -> StatCells]] :
       arg = Table(<<NIANLINGZU>> \o SubSeq(headers, 1, nv),
                   [r \in 1..nr |-> <<AgeLabels[r]>> \o cells[r]])
  /\ ret = None
  /\ files = Idle /\ idx = 0 /\ data = Idle /\ geojson = Idle /\ logs = Idle
  /\ observed = Idle

Call_process_stats_table ==
  /\ pc = "call"
  /\ ret' = process_stats_table(arg)
  /\ pc' = "done"
  /\ UNCHANGED <<arg, files, idx, data, geojson, logs, observed>>

NextStats == Call_process_stats_table

SpecStats == InitStats /\ [][NextStats]_vars

\* More than 1 row of the value cells obs is not all zero, and their sum is
\* positive.
NonDegenerate(clean) == Len(clean) > 1 /\ Less(Zero, PairwiseSum(Flat(clean)))

\* The number of value columns of the input that are not all zero.
NonZeroColumns(obs, nv) ==
  Cardinality({c \in 1..nv : \E r \in 1..Len(obs) : obs[r][c] # Zero})

\* C9: the chi-square and p-value columns are present only when the input has
\* at least 2 value columns and, all-zero rows dropped, more than 1 row remains
\* with a positive sum; when present they are filled in the first row only and
\* empty in every other row; they are absent when exactly one value column of
\* the input is non-zero; and the call returns a table in every case.
C9_Chi2OnlyWhenNonDegenerate ==
  pc = "done" =>
    /\ NRows(ret) = NRows(arg)
    /\ (ColumnOf(ret, CHI2_ZHI) # 0) = (ColumnOf(ret, P_ZHI) # 0)
    /\ (ColumnOf(ret, CHI2_ZHI) # 0 =>
          /\ NCols(arg) - 1 >= 2
          /\ NonDegenerate(NonZero(InputObs(arg)))
          /\ ret.rows[1][ColumnOf(ret, CHI2_ZHI)] # <<>> /\ ret.rows[1][ColumnOf(ret, P_ZHI)] # <<>>
          /\ \A r \in 2..NRows(ret) :
               ret.rows[r][ColumnOf(ret, CHI2_ZHI)] = <<>> /\ ret.rows[r][ColumnOf(ret, P_ZHI)] = <<>>)
    /\ (NonZeroColumns(InputObs(arg), NCols(arg) - 1) = 1 => ColumnOf(ret, CHI2_ZHI) = 0)

----------------------------------------------------------------------------
(* 4. ReportGenerator *)

\* f"{abs(v):.2f}" for a finite v.
FormatAbs2f(v) == Format2f(Hundredths(v))

SHANGSHENG == <<"U4E0A", "U5347">>   \* '上升'
XIAJIANG   == <<"U4E0B", "U964D">>   \* '下降'
CHIPING    == <<"U6301", "U5E73">>   \* '持平'

\* fmt_trend on a cell of a numeric column (float(val) succeeds), given how val
\* compares with 0 (1: val > 0, -1: val < 0, 0: neither).
TrendText(val, sign) ==
  IF sign = 0 THEN CHIPING
  ELSE (IF sign > 0 THEN SHANGSHENG ELSE XIAJIANG)
         \o (IF IsFinite(val) THEN FormatAbs2f(val) ELSE <<"i", "n", "f">>) \o <<"%">>

fmt_trend(val) == TrendText(val, IF IsNaN(val) THEN 0 ELSE Sgn(val[2]))

NO_CASES == <<"U65E0", "U62A5", "U544A", "U75C5", "U4F8B", "U3002">>   \* '无报告病例。'
DUNHAO   == <<"U3001">>                                                \* '、'
WU       == <<"U65E0">>                                                \* '无'

TopN == 3   \* df_sub.head(3)

\* row.get(column, 0): the row's cell under that header, 0 when the table has
\* no such column.
RowGet(df, row, header) ==
  IF ColumnOf(df, header) # 0 THEN row[ColumnOf(df, header)] ELSE Zero

\* row['本期发病数'], in a table that has the column.
Cases(df, row) == row[ColumnOf(df, BENQI_FABINGSHU)]

\* df_sub.sort_values('本期发病数', ascending=False): sort_values sorts with
\* kind='quicksort', which is not a stable sort, so rows with equal counts come
\* out in an order the numpy build decides.  The possible results: every
\* permutation of the row numbers that puts the counts in descending order,
\* NaN last.
SortOrders(df) ==
  { p \in [1..NRows(df) -> 1..NRows(df)] :
      /\ \A i, j \in 1..NRows(df) : i # j => p[i] # p[j]
      /\ \A i \in 1..(NRows(df) - 1) :
           \/ IsNaN(Cases(df, df.rows[p[i + 1]]))
           \/ Leq(Cases(df, df.rows[p[i + 1]]), Cases(df, df.rows[p[i]])) }

\* f"{p:.2f}" of a float p; negative tells the sign of p when p is zero (-0.0
\* prints as '-0.00').
FloatText2f(p, negative) ==
  IF IsNaN(p) THEN NAN_STR
  ELSE IF ~IsFinite(p) THEN (IF p[2] < 0 THEN <<"-", "i", "n", "f">> ELSE <<"i", "n", "f">>)
  ELSE (IF p[2] < 0 \/ (p[2] = 0 /\ negative) THEN <<"-">> ELSE <<>>) \o FormatAbs2f(p)

\* f"{percent:.2f}" for percent = (cases / total_cases * 100), cases an int
\* and total_cases the sum of a column (a NumPy number).  A quotient that is
\* zero has a sign too: that of total_cases when cases is 0 (the int 0 has no
\* sign), and that of cases * total_cases when not.
PercentText(cases, total_cases) ==
  FloatText2f(Mul(Div(cases, total_cases), Hundred),
              (IF cases[2] < 0 THEN -1 ELSE 1) * total_cases[2] < 0)

\* Does iterrows() hand out the rows of df as floats: every column is numeric
\* and their common dtype is float64.
FloatRows(df) ==
  /\ \A j \in 1..NCols(df) : df.dtypes[j] \in NumericDTypes
  /\ CommonDType({df.dtypes[j] : j \in 1..NCols(df)}) = "float64"

\* name = row.iloc[0] as the f-string prints it: str(name), 'nan' for a blank
\* cell; a number is a float when its column is float64 or the row is.
NameText(df, row) == StrOf(row[1], FloatColumn(df, 1) \/ FloatRows(df))

\* The f-string `desc` of one kept row: the name, the cases as an int.
Describe(df, row, total_cases) ==
  NameText(df, row) \o <<"UFF08">> \o IntText(Trunc(Cases(df, row)))
    \o <<"U4F8B", "UFF0C", "U5360", "U6BD4">>                          \* '例，占比'
    \o PercentText(Trunc(Cases(df, row)), total_cases)
    \o <<"%", "UFF0C", "U8F83", "U4E0A", "U6708">>                     \* '%，较上月'
    \o fmt_trend(RowGet(df, row, YU_SHANGQI_BI))
    \o <<"UFF0C", "U8F83", "U53BB", "U5E74", "U540C", "U671F">>        \* '，较去年同期'
    \o fmt_trend(RowGet(df, row, YU_QUNIAN_BI))
    \o <<"UFF09">>

\* sep.join(parts)
RECURSIVE JoinWith(_, _)
JoinWith(sep, parts) ==
  IF parts = <<>> THEN <<>>
  ELSE IF Len(parts) = 1 THEN parts[1]
  ELSE parts[1] \o sep \o JoinWith(sep, Tail(parts))

\* The text a call returned, and the exception a call raised.
Returned(text) == [kind |-> "text", text |-> text]
Raises(exc)    == [kind |-> exc, text |-> <<>>]

\* df_sub.sort_values(...).head(3), given the order sort_values produced
TopRows(df_sub, order) ==
  [i \in 1..(IF NRows(df_sub) < TopN THEN NRows(df_sub) ELSE TopN) |-> df_sub.rows[order[i]]]

\* if row['本期发病数'] <= 0: continue
KeptRows(df_sub, head) == SelectSeq(head, LAMBDA row : ~Leq(Cases(df_sub, row), Zero))

\* cases = int(row['本期发病数']): the first kept row where it raises, or 0
FirstBad(df_sub, kept) ==
  FirstTrue([i \in 1..Len(kept) |-> IntRaises(Cases(df_sub, kept[i])) # "none"])

\* The loop over the rows kept and the return.
TopText(df_sub, total_cases, kept) ==
  IF FirstBad(df_sub, kept) # 0
  THEN Raises(IntRaises(Cases(df_sub, kept[FirstBad(df_sub, kept)])))
  ELSE IF kept # <<>>
  THEN Returned(JoinWith(DUNHAO, [i \in 1..Len(kept) |-> Describe(df_sub, kept[i], total_cases)]))
  ELSE Returned(NO_CASES)

\* get_top_diseases_text, given the order sort_values produced (none is needed
\* when the table is empty or has no column '本期发病数').
get_top_diseases_text(df_sub, total_cases, order) ==
  IF NRows(df_sub) = 0 \/ NCols(df_sub) = 0 THEN Returned(NO_CASES)     \* df_sub.empty
  ELSE IF ColumnOf(df_sub, BENQI_FABINGSHU) = 0 THEN Raises("KeyError") \* sort_values
  ELSE TopText(df_sub, total_cases, KeptRows(df_sub, TopRows(df_sub, order)))

\* --- get_top_diseases_text run on bounded inputs ---

MaxTopRows == 4

TopCases == {-1, 0, 5, 20, 50}

\* <<scale, total>>: the counts are TopCases as they stand (scale 0) or their
\* tenths (scale -1), under a total that is not the sum of the cases.
TopCalls == {<<0, 160>>, <<-1, 160>>, <<-1, -160>>}

SummaryColumns == <<BINGZHONG, BENQI_FABINGSHU, YU_SHANGQI_BI, YU_QUNIAN_BI>>

\* Names and trends of the rows, by position: 病毒性肝炎, 梅毒, 麻疹, 乙型肝炎, 肺结核.
TopNames ==
  << <<"U75C5", "U6BD2", "U6027", "U809D", "U708E">>, <<"U6885", "U6BD2">>,
     <<"U9EBB", "U75B9">>, <<"U4E59", "U578B", "U809D", "U708E">>,
     <<"U80BA", "U7ED3", "U6838">> >>
TopMom == <<Num(5, 0), Num(-3, 0), Num(0, 0), Num(12125, -3), Num(7, 0)>>
TopYoy == <<Num(-2, 0), Num(0, 0), Num(4, 0), Num(1, 0), Num(-9, 0)>>

\* Tables whose names are the numbers 1 and 2, in an int64 or a float64 column
\* beside an int64 or a float64 column of cases.
NumberedCalls ==
  { [df_sub |-> DataFrame(<<BINGZHONG, BENQI_FABINGSHU>>,
                          << <<IntNum(1), IntNum(3)>>, <<IntNum(2), IntNum(2)>> >>,
                          dtypes),
     total_cases |-> IntNum(5)] : dtypes \in [1..2 -> {"int64", "float64"}] }

\* A table of the summary's columns, or of the name column alone, with a total
\* that is 160, -160 or the (positive) sum of the cases; or a table of
\* numbered names.
InitTop ==
  /\ pc = "call"
  /\ \/ \E n \in 0..MaxTopRows : \E cases \in [1..n -> TopCases] :
        \E call \in TopCalls \cup {<<0, t>> : t \in {t \in {SumSeq(cases)} : t > 0}} :
          \/ arg = [df_sub |-> Table(SummaryColumns,
                                     [r \in 1..n |->
                                        <<TopNames[r], Num(cases[r], call[1]), TopMom[r], TopYoy[r]>>]),
                    total_cases |-> IntNum(call[2])]
          \/ arg = [df_sub |-> Table(<<BINGZHONG>>, [r \in 1..n |-> <<TopNames[r]>>]),
                    total_cases |-> IntNum(160)]
     \/ arg \in NumberedCalls
  /\ ret = None
  /\ files = Idle /\ idx = 0 /\ data = Idle /\ geojson = Idle /\ logs = Idle
  /\ observed = Idle

Call_get_top_diseases_text ==
  /\ pc = "call"
  /\ IF ColumnOf(arg.df_sub, BENQI_FABINGSHU) # 0
     THEN \E order \in SortOrders(arg.df_sub) :
            ret' = get_top_diseases_text(arg.df_sub, arg.total_cases, order)
     ELSE ret' = get_top_diseases_text(arg.df_sub, arg.total_cases, <<>>)
  /\ pc' = "done"
  /\ UNCHANGED <<arg, files, idx, data, geojson, logs, observed>>

NextTop == Call_get_top_diseases_text

SpecTop == InitTop /\ [][NextTop]_vars

\* The order the claim names: counts descending, ties in input order.
StableOrder(df) ==
  CHOOSE p \in SortOrders(df) :
    \A i \in 1..(NRows(df) - 1) :
      Cases(df, df.rows[p[i]]) = Cases(df, df.rows[p[i + 1]]) => p[i] < p[i + 1]

\* C10: the text lists the rows with positive cases among the first 3 of the
\* rows sorted by case count descending with ties in input order, in that
\* order and without backfilling, and is the no-cases phrase when there is none.
C10_StableTop3 ==
  pc = "done" /\ ColumnOf(arg.df_sub, BENQI_FABINGSHU) # 0 =>
    LET df == arg.df_sub
        p == StableOrder(df)
        firstThree == [i \in 1..(IF NRows(df) < 3 THEN NRows(df) ELSE 3) |-> df.rows[p[i]]]
        items == SelectSeq(firstThree, LAMBDA row : Less(Zero, Cases(df, row)))
    IN ret = IF items = <<>> THEN Returned(NO_CASES)
             ELSE Returned(JoinWith(DUNHAO,
                    [i \in 1..Len(items) |-> Describe(df, items[i], arg.total_cases)]))

----------------------------------------------------------------------------
(* 4. ReportGenerator.generate_full_report *)

\* df[df.iloc[:,0].astype(str).str.contains('合计')]: is this the total row?
IsTotalRow(row) == ~IsNumber(row[1]) /\ Contains(HEJI, row[1])

\* df_detail = df[~df.iloc[:,0].astype(str).str.contains('合计')].copy()
DetailTable(df) == [df EXCEPT !.rows = SelectSeq(df.rows, LAMBDA row : ~IsTotalRow(row))]

CLASS == <<"C", "l", "a", "s", "s">>   \* 'Class'

\* df_detail['Class'] = df_detail.iloc[:,0].apply(get_disease_class): a column
\* headed 'Class' is replaced, the first column included; a table without one
\* gets it as its last column.
WithClass(df_detail) ==
  AssignColumn(df_detail, CLASS,
               [r \in 1..NRows(df_detail) |->
                  get_disease_class(StrOf(df_detail.rows[r][1], FloatColumn(df_detail, 1)))] \o <<>>,
               "object")

\* df_detail[df_detail['Class'] == tier]
TierRows(df_detail, tier) ==
  [df_detail EXCEPT !.rows = SelectSeq(df_detail.rows,
                                       LAMBDA row : row[ColumnOf(df_detail, CLASS)] = tier)]

\* df_b and df_c: the rows of one tier of df_detail with its column 'Class',
\* df having a column.
TierTable(df, tier) == TierRows(WithClass(DetailTable(df)), tier)

\* A paragraph of the report: the values its template interpolates, or the
\* exception (kind) raised while they were computed.
Section(kind, tier, reported, count, cases, text) ==
  [kind |-> kind, tier |-> tier, reported |-> reported, count |-> count, cases |-> cases,
   text |-> text]

\* b_cases = df_b['本期发病数'].sum()
TierCases(sub) == SeriesSum([r \in 1..NRows(sub) |-> Cases(sub, sub.rows[r])])

\* The template of a tier that has rows, filled in, or the exception the
\* ranking or int(b_cases) raises.
TierFilled(tier, sub, cases, top) ==
  IF top.kind # "text" THEN Section(top.kind, tier, TRUE, 0, Zero, <<>>)
  ELSE IF IntRaises(cases) # "none" THEN Section(IntRaises(cases), tier, TRUE, 0, Zero, <<>>)
  ELSE Section("text", tier, TRUE,
               \* len(df_b[df_b['本期发病数'] > 0])
               Cardinality({r \in 1..NRows(sub) : Less(Zero, Cases(sub, sub.rows[r]))}),
               Trunc(cases), top.text)

\* One tier's paragraph, given the rows of the tier and their cases.
TierParagraph(tier, sub, cases, order) ==
  IF sub.rows = <<>> THEN Section("text", tier, FALSE, 0, Zero, <<>>)
  ELSE TierFilled(tier, sub, cases,
                  \* get_top_diseases_text(df_b, b_cases) if b_cases > 0 else "无"
                  IF Less(Zero, cases) THEN get_top_diseases_text(sub, cases, order)
                  ELSE Returned(WU))

\* One tier's paragraph (section_2, section_3): the fixed "none reported"
\* sentence when the tier has no row, else the template filled with the number
\* of diseases reported, the tier's cases and the ranking text; or the
\* exception the ranking or int(b_cases) raises.
TierSection(df, tier, order) ==
  TierParagraph(tier, TierTable(df, tier), TierCases(TierTable(df, tier)), order)

\* The overall paragraph of a table with a total row total_row and the column
\* '本期发病数'.
OverallSection(df, total_row) ==
  Section("text", <<>>, TRUE,
          Cardinality({r \in 1..NRows(df) :
                         ~IsTotalRow(df.rows[r]) /\ Less(Zero, Cases(df, df.rows[r]))}),
          Trunc(Cases(df, total_row)),
          fmt_trend(RowGet(df, total_row, YU_SHANGQI_BI))
            \o <<";">> \o fmt_trend(RowGet(df, total_row, YU_QUNIAN_BI)))

\* The report, or the exception a tier raised.
ReportOf(df, total_row, secB, secC) ==
  IF secB.kind # "text" THEN [kind |-> secB.kind, sections |-> <<>>]
  ELSE IF secC.kind # "text" THEN [kind |-> secC.kind, sections |-> <<>>]
  ELSE [kind |-> "report", sections |-> <<OverallSection(df, total_row), secB, secC>>]

\* The body of the method on the table df whose total rows are totals.
ReportOn(df, totals, orderB, orderC) ==
  IF totals = <<>>
  THEN [kind |-> "IndexError", sections |-> <<>>]      \* .iloc[0] of no row
  ELSE IF ColumnOf(df, BENQI_FABINGSHU) = 0
  THEN [kind |-> "KeyError", sections |-> <<>>]        \* total_row['本期发病数']
  ELSE IF IntRaises(Cases(df, totals[1])) # "none"     \* int(total_row['本期发病数'])
  THEN [kind |-> IntRaises(Cases(df, totals[1])), sections |-> <<>>]
  ELSE ReportOf(df, totals[1], TierSection(df, YI, orderB), TierSection(df, BING, orderC))

\* generate_full_report for self.d['summary'] = summary, given the orders the
\* two sort_values calls produce.  The result is the placeholder message, the
\* report (its three paragraphs in order, each as the values its template
\* interpolates), or the exception that leaves the method.
generate_full_report(summary, orderB, orderC) ==
  IF summary = None THEN [kind |-> "placeholder", sections |-> <<>>]
  ELSE ReportOn(summary[1], SelectSeq(summary[1].rows, IsTotalRow), orderB, orderC)

\* --- generate_full_report run on bounded inputs ---

MaxReportRows == 3

\* 合计, 病毒性肝炎, 梅毒, 手足口病, 感冒
ReportNames ==
  { <<"U5408", "U8BA1">>, <<"U75C5", "U6BD2", "U6027", "U809D", "U708E">>, <<"U6885", "U6BD2">>,
    <<"U624B", "U8DB3", "U53E3", "U75C5">>, <<"U611F", "U5192">> }

ReportRows == { <<n, IntNum(c), Num(5, 0), Num(-2675, -3)>> : n \in ReportNames, c \in {0, 3} }

\* A summary slot: empty, or a table with the report's columns, or one without
\* the '本期发病数' column, or one whose first column is headed 'Class'.
ReportSummaries ==
  {None}
    \cup { <<Table(SummaryColumns, rows)>> : rows \in SeqsUpTo(ReportRows, MaxReportRows) }
    \cup { <<Table(<<BINGZHONG>>, [r \in 1..Len(rows) |-> <<rows[r][1]>>])>> :
             rows \in SeqsUpTo(ReportRows, MaxReportRows) }
    \cup { <<Table(<<CLASS, BENQI_FABINGSHU>>, [r \in 1..Len(rows) |-> <<rows[r][1], rows[r][2]>>])>> :
             rows \in SeqsUpTo(ReportRows, MaxReportRows - 1) }

InitReport ==
  /\ pc = "call" /\ arg \in ReportSummaries /\ ret = None
  /\ files = Idle /\ idx = 0 /\ data = Idle /\ geojson = Idle /\ logs = Idle
  /\ observed = Idle

Call_generate_full_report ==
  /\ pc = "call"
  /\ IF arg # None /\ ColumnOf(arg[1], BENQI_FABINGSHU) # 0
     THEN \E orderB \in SortOrders(TierTable(arg[1], YI)) :
          \E orderC \in SortOrders(TierTable(arg[1], BING)) :
            ret' = generate_full_report(arg, orderB, orderC)
     ELSE ret' = generate_full_report(arg, <<>>, <<>>)
  /\ pc' = "done"
  /\ UNCHANGED <<arg, files, idx, data, geojson, logs, observed>>

NextReport == Call_generate_full_report

SpecReport == InitReport /\ [][NextReport]_vars

\* C7: generate_full_report never raises: with no summary table it returns the
\* placeholder, and for every stored summary table, one without a total row
\* included, it returns the overall, TierB and TierC paragraphs in that order.
C7_ReportNeverRaises ==
  pc = "done" =>
    /\ ret.kind \in {"placeholder", "report"}
    /\ (arg = None => ret.kind = "placeholder")
    /\ (arg # None =>
          /\ ret.kind = "report"
          /\ Len(ret.sections) = 3
          /\ ret.sections[2].tier = YI /\ ret.sections[3].tier = BING)

----------------------------------------------------------------------------
(* 5c. AdvancedParser.parse_files *)

\* An uploaded file: its name; whether its reader succeeds (pd.read_csv with
\* the gbk retry, pd.read_excel, or json.load(f)["features"] with
\* GeoDataFrame.from_features); the table read from it; the features of a
\* geometry file.
\*   [name |-> str, ok |-> BOOLEAN, df |-> table, features |-> sequence]

Roles == {"summary", "time", "age", "pop", "area"}

\* AdvancedParser.__init__
EmptyData == [r \in Roles |-> None]

BAOBIAO  == <<"U62A5", "U8868">>   \* '报表'
BENQI    == <<"U672C", "U671F">>   \* '本期'
SHIJIAN  == <<"U65F6", "U95F4">>   \* '时间'
FABING   == <<"U53D1", "U75C5">>   \* '发病'
NAN      == <<"U7537">>     \* '男'
RENQUN   == <<"U4EBA", "U7FA4">>   \* '人群'
ZHIYE    == <<"U804C", "U4E1A">>   \* '职业'
DIQU     == <<"U5730", "U533A">>   \* '地区'
XIANGZHEN == <<"U4E61", "U9547">>  \* '乡镇'
JIEDAO   == <<"U8857", "U9053">>   \* '街道'

\* df.iloc[:, 0] = df.iloc[:, 0].astype(str), on a table with a column.  The
\* right-hand side holds strs, which a column of dtype int64 or float64 cannot
\* take in place.  Before pandas 3 the column is then replaced by the strs
\* (with a FutureWarning); from pandas 3 on (new) the assignment raises
\* TypeError.  A column of objects, of strs or of categories (whose strs are
\* the categories) takes them.
FirstColumnRaises(df, new) == new /\ NRows(df) >= 1 /\ df.dtypes[1] \in NumericDTypes

FirstColumnAsStr(df, new) ==
  SetColumn(df, 1, [r \in 1..NRows(df) |-> AsStr(df.rows[r][1], FloatColumn(df, 1), new)],
            IF df.dtypes[1] \in NumericDTypes THEN "object" ELSE df.dtypes[1])

\* df['Cases'].astype(str).str.replace(',', '')
AreaTexts(df) ==
  [r \in 1..NRows(df) |-> RemoveChar(StrOf(df.rows[r][2], FloatColumn(df, 2)), ",")] \o <<>>

\* df.iloc[:, [0, 1]] with the columns renamed ['Name', 'Cases'] and Cases made numeric.
AreaTable(df) ==
  FromSeries(<< <<"N", "a", "m", "e">>, <<"C", "a", "s", "e", "s">> >>,
             <<[dtype |-> df.dtypes[1], values |-> Column(df, 1)], NumbersOf(AreaTexts(df))>>, NRows(df))

MinAreaColumns == 2   \* if df.shape[1] >= 2

\* What one pass of the loop body does with file f: the slot it assigns
\* ("geojson", a role, or "none"), the value assigned, and the entries it
\* appends to logs (none, one "stored" entry, or the except clause's entry).
Stored(slot, value, what, f) ==
  [slot |-> slot, value |-> value, log |-> <<[mark |-> "stored", what |-> what, name |-> f.name]>>]
Skipped ==
  [slot |-> "none", value |-> None, log |-> <<>>]
Raised(exc, f) ==
  [slot |-> "none", value |-> None, log |-> <<[mark |-> "error", what |-> exc, name |-> f.name]>>]

\* A plausible slip: the '年龄' test placed before the '时间' test.
Outcome_AgeBeforeTime(f, obs) ==
  IF EndsWith(f.name, <<".", "j", "s", "o", "n">>) \/ EndsWith(f.name, <<".", "g", "e", "o", "j", "s", "o", "n">>)
  THEN IF f.ok THEN Stored("geojson", f.features, "geojson", f) ELSE Raised("load", f)
  ELSE IF ~f.ok THEN Raised("read", f)
  ELSE
    LET df == f.df
        cols == Join(df.columns)
    IN
    IF Contains(BAOBIAO, f.name) \/ (Contains(BINGZHONG, cols) /\ Contains(BENQI, cols))
    THEN Stored("summary", NormalizeSummary(df), "summary", f)
    ELSE IF Contains(NIANLING, f.name) \/ Contains(NAN, cols)
    THEN IF NCols(bin_ages(df, obs).ret) = 0 THEN Raised("IndexError", f)
         ELSE IF FirstColumnRaises(bin_ages(df, obs).ret, obs) THEN Raised("TypeError", f)
         ELSE Stored("age", FirstColumnAsStr(bin_ages(df, obs).ret, obs), "age", f)
    ELSE IF Contains(SHIJIAN, f.name) \/ (Contains(SHIJIAN, cols) /\ Contains(FABING, cols))
    THEN Stored("time", df, "time", f)
    ELSE IF Contains(RENQUN, f.name) \/ Contains(ZHIYE, cols)
    THEN IF NCols(df) = 0 THEN Raised("IndexError", f)
         ELSE IF FirstColumnRaises(df, obs) THEN Raised("TypeError", f)
         ELSE Stored("pop", FirstColumnAsStr(df, obs), "pop", f)
    ELSE IF Contains(DIQU, f.name) \/ Contains(XIANGZHEN, cols) \/ Contains(JIEDAO, cols)
    THEN IF NCols(df) >= MinAreaColumns THEN Stored("area", AreaTable(df), "area", f) ELSE Skipped
    ELSE Skipped

\* A plausible slip: the slot assigned before the statement that can raise.
Outcome_StoreBeforeTransform(f, obs) ==
  IF EndsWith(f.name, <<".", "j", "s", "o", "n">>) \/ EndsWith(f.name, <<".", "g", "e", "o", "j", "s", "o", "n">>)
  THEN IF f.ok THEN Stored("geojson", f.features, "geojson", f) ELSE Raised("load", f)
  ELSE IF ~f.ok THEN Raised("read", f)
  ELSE
    LET df == f.df
        cols == Join(df.columns)
    IN
    IF Contains(BAOBIAO, f.name) \/ (Contains(BINGZHONG, cols) /\ Contains(BENQI, cols))
    THEN Stored("summary", NormalizeSummary(df), "summary", f)
    ELSE IF Contains(SHIJIAN, f.name) \/ (Contains(SHIJIAN, cols) /\ Contains(FABING, cols))
    THEN Stored("time", df, "time", f)
    ELSE IF Contains(NIANLING, f.name) \/ Contains(NAN, cols)
    THEN IF NCols(bin_ages(df, obs).ret) = 0
         THEN [Raised("IndexError", f) EXCEPT !.slot = "age", !.value = bin_ages(df, obs).ret]
         ELSE IF FirstColumnRaises(bin_ages(df, obs).ret, obs)
         THEN [Raised("TypeError", f) EXCEPT !.slot = "age", !.value = bin_ages(df, obs).ret]
         ELSE Stored("age", FirstColumnAsStr(bin_ages(df, obs).ret, obs), "age", f)
    ELSE IF Contains(RENQUN, f.name) \/ Contains(ZHIYE, cols)
    THEN IF NCols(df) = 0
         THEN [Raised("IndexError", f) EXCEPT !.slot = "pop", !.value = df]
         ELSE IF FirstColumnRaises(df, obs)
         THEN [Raised("TypeError", f) EXCEPT !.slot = "pop", !.value = df]
         ELSE Stored("pop", FirstColumnAsStr(df, obs), "pop", f)
    ELSE IF Contains(DIQU, f.name) \/ Contains(XIANGZHEN, cols) \/ Contains(JIEDAO, cols)
    THEN IF NCols(df) >= MinAreaColumns THEN Stored("area", AreaTable(df), "area", f) ELSE Skipped
    ELSE Skipped

\* The body of the loop of parse_files for one file f (the try block and its
\* except clause), obs telling the installed pandas (see `observed`).
Outcome(f, obs) ==
  IF EndsWith(f.name, <<".", "j", "s", "o", "n">>) \/ EndsWith(f.name, <<".", "g", "e", "o", "j", "s", "o", "n">>)
  THEN \* self.geojson = gpd.GeoDataFrame.from_features(json.load(f)["features"])
       IF f.ok THEN Stored("geojson", f.features, "geojson", f) ELSE Raised("load", f)
  ELSE IF ~f.ok THEN Raised("read", f)          \* pd.read_csv / pd.read_excel raises
  ELSE
    LET df == f.df
        cols == Join(df.columns)                \* "".join(df.columns.astype(str))
    IN
    IF Contains(BAOBIAO, f.name) \/ (Contains(BINGZHONG, cols) /\ Contains(BENQI, cols))
    THEN Stored("summary", NormalizeSummary(df), "summary", f)
    ELSE IF Contains(SHIJIAN, f.name) \/ (Contains(SHIJIAN, cols) /\ Contains(FABING, cols))
    THEN Stored("time", df, "time", f)
    ELSE IF Contains(NIANLING, f.name) \/ Contains(NAN, cols)
    THEN \* df = self.bin_ages(df); df.iloc[:, 0] = df.iloc[:, 0].astype(str)
         IF NCols(bin_ages(df, obs).ret) = 0 THEN Raised("IndexError", f)
         ELSE IF FirstColumnRaises(bin_ages(df, obs).ret, obs) THEN Raised("TypeError", f)
         ELSE Stored("age", FirstColumnAsStr(bin_ages(df, obs).ret, obs), "age", f)
    ELSE IF Contains(RENQUN, f.name) \/ Contains(ZHIYE, cols)
    THEN IF NCols(df) = 0 THEN Raised("IndexError", f)
         ELSE IF FirstColumnRaises(df, obs) THEN Raised("TypeError", f)
         ELSE Stored("pop", FirstColumnAsStr(df, obs), "pop", f)
    ELSE IF Contains(DIQU, f.name) \/ Contains(XIANGZHEN, cols) \/ Contains(JIEDAO, cols)
    THEN IF NCols(df) >= MinAreaColumns THEN Stored("area", AreaTable(df), "area", f) ELSE Skipped
    ELSE Skipped

\* A plausible slip: a slot written only while it is still None.
StoreInSlot_IfEmpty(d, slot, value) ==
  IF slot \in Roles /\ d[slot] = None THEN [d EXCEPT ![slot] = <<value>>] ELSE d

\* self.data[slot] = df
StoreInSlot(d, slot, value) ==
  IF slot \in Roles THEN [d EXCEPT ![slot] = <<value>>] ELSE d

\* The parser's state after a pass of the loop body with outcome o.
AfterOutcome(st, o) ==
  [data    |-> StoreInSlot(st.data, o.slot, o.value),
   geojson |-> IF o.slot = "geojson" THEN <<o.value>> ELSE st.geojson,
   logs    |-> st.logs \o o.log]

\* --- parse_files run on batches of uploaded files ---

MaxFiles == 3

NoTable == Table(<<>>, <<>>)

File(name, ok, df, features) == [name |-> name, ok |-> ok, df |-> df, features |-> features]

\* The files a batch is drawn from.  A batch is held as the sequence of the
\* positions of its files in this list.
Uploads ==
  << \* the summary report: routed by its name and by its headers
    File(<<"U75AB", "U60C5", "U5206", "U6790", "U62A5", "U8868", ".", "x", "l", "s", "x">>, TRUE,
         Table(<<BINGZHONG, BENQI_FABINGSHU, YU_SHANGQI_BI>>,
               << <<<<"U5408", "U8BA1">>, <<"1", ",", "2", "3", "4">>, <<"-", "3">>>>, <<<<"U6885", "U6BD2">>, <<"-">>, <<"5">>>> >>), <<>>),
    \* summary headers under a name that carries the time marker
    File(<<"U65F6", "U95F4", ".", "c", "s", "v">>, TRUE,
         Table(<<BINGZHONG, BENQI_FABINGSHU>>, << <<<<"U9EBB", "U75B9">>, <<"x">>>> >>), <<>>),
    \* a time series whose name carries the age marker too
    File(<<"U5E74", "U9F84", "U65F6", "U95F4", ".", "x", "l", "s", "x">>, TRUE,
         Table(<<<<"U53D1", "U75C5", "U65F6", "U95F4">>, <<"U75C5", "U4F8B", "U6570">>>>,
               << <<<<"1", "U6708">>, IntNum(3)>>, <<<<"U5408", "U8BA1">>, IntNum(3)>> >>), <<>>),
    \* a line list with a raw age column
    File(<<"U5E74", "U9F84", ".", "c", "s", "v">>, TRUE,
         Table(<<NIANLING>>, << <<IntNum(3)>>, <<IntNum(22)>>, <<IntNum(101)>> >>), <<>>),
    \* a line list with a raw age column and a sex column
    File(<<"U5E74", "U9F84", "U6027", "U522B", ".", "c", "s", "v">>, TRUE,
         Table(<<NIANLING, XINGBIE>>,
               << <<IntNum(3), <<"U7537">>>>, <<IntNum(4), <<"U5973">>>>, <<IntNum(100), <<"U7537">>>> >>), <<>>),
    \* an age table already grouped, routed by its '男' header; it has an
    \* occupation header as well, and a blank cell in its first column
    File(<<"b", ".", "x", "l", "s", "x">>, TRUE,
         Table(<<NIANLINGZU, NAN, ZHIYE>>,
               << <<<<"0", "-", "4">>, IntNum(1), <<"x">>>>, <<<<>>, IntNum(2), <<"x">>>> >>), <<>>),
    \* an occupation table whose first column holds a str, a blank cell and a
    \* number
    File(<<"U4EBA", "U7FA4", ".", "x", "l", "s", "x">>, TRUE,
         Table(<<ZHIYE, <<"U75C5", "U4F8B", "U6570">>>>,
               << <<<<"U5B66", "U751F">>, IntNum(3)>>, <<<<>>, IntNum(1)>>, <<IntNum(12), IntNum(2)>> >>), <<>>),
    \* an occupation table whose first column holds the row numbers (int64)
    File(<<"e", ".", "x", "l", "s", "x">>, TRUE,
         Table(<<<<"U5E8F", "U53F7">>, ZHIYE>>,
               << <<IntNum(1), <<"U5B66", "U751F">>>>, <<IntNum(2), <<"U519C", "U6C11">>>> >>), <<>>),
    \* a grouped age table whose first column holds the midpoints of the
    \* groups, one of them blank (float64)
    File(<<"f", ".", "x", "l", "s", "x">>, TRUE,
         Table(<<<<"U7EC4", "U4E2D", "U503C">>, NAN>>,
               << <<Num(25, -1), IntNum(1)>>, <<<<>>, IntNum(2)>>, <<IntNum(12), IntNum(0)>> >>), <<>>),
    \* an occupation table read from CSV, where the row numbers are spelled
    \* 1.0 and 2.0 (float64)
    File(<<"U4EBA", "U7FA4", ".", "c", "s", "v">>, TRUE,
         DataFrame(<<<<"U5E8F", "U53F7">>, ZHIYE>>,
                   << <<IntNum(1), <<"U5B66", "U751F">>>>, <<IntNum(2), <<"U519C", "U6C11">>>> >>,
                   <<"float64", "object">>), <<>>),
    \* an area table with a third column
    File(<<"U5730", "U533A", ".", "c", "s", "v">>, TRUE,
         Table(<<XIANGZHEN, <<"U75C5", "U4F8B", "U6570">>, <<"U5907", "U6CE8">>>>,
               << <<<<"A">>, <<"1", ",", "0", "0", "0">>, <<"x">>>>, <<<<"B">>, <<"-", "1">>, <<>>>> >>), <<>>),
    \* an area table with one column only
    File(<<"c", ".", "c", "s", "v">>, TRUE, Table(<<JIEDAO>>, << <<<<"A">>>> >>), <<>>),
    \* a table no rule matches
    File(<<"d", ".", "x", "l", "s", "x">>, TRUE, Table(<<<<"U5907", "U6CE8">>>>, << <<<<"x">>>> >>), <<>>),
    \* an empty sheet (no column) under the occupation marker
    File(<<"U4EBA", "U7FA4", "2", ".", "x", "l", "s", "x">>, TRUE, NoTable, <<>>),
    \* a file its reader cannot decode
    File(<<"U5730", "U533A", "2", ".", "c", "s", "v">>, FALSE, NoTable, <<>>),
    \* a geometry file, and one that is not valid JSON
    File(<<"m", "a", "p", ".", "j", "s", "o", "n">>, TRUE, NoTable, <<<<"A">>, <<"B">>>>),
    File(<<"b", "a", "d", ".", "g", "e", "o", "j", "s", "o", "n">>, FALSE, NoTable, <<>>) >>

\* The loop body's outcome for each file of the list, under a pandas before 3
\* (FALSE) and from 3 on (TRUE).
UploadOutcome == [obs \in BOOLEAN |-> [i \in 1..Len(Uploads) |-> Outcome(Uploads[i], obs)]]

\* parse_files on a fresh parser, for a whole batch.
RECURSIVE AfterBatch(_)
AfterBatch(batch) ==
  IF batch = <<>> THEN [data |-> EmptyData, geojson |-> None, logs |-> <<>>]
  ELSE AfterOutcome(AfterBatch(SubSeq(batch, 1, Len(batch) - 1)), UploadOutcome[observed][batch[Len(batch)]])

InitParse ==
  /\ pc = "loop"
  /\ files \in SeqsUpTo(1..Len(Uploads), MaxFiles)
  /\ idx = 0
  /\ data = EmptyData
  /\ geojson = None
  /\ logs = <<>>
  /\ arg = Idle /\ ret = None
  /\ observed \in BOOLEAN

\* One pass of `for f in files`.
parse_files_step ==
  /\ pc = "loop"
  /\ idx < Len(files)
  /\ LET st == AfterOutcome([data |-> data, geojson |-> geojson, logs |-> logs],
                            UploadOutcome[observed][files[idx + 1]])
     IN /\ data' = st.data
        /\ geojson' = st.geojson
        /\ logs' = st.logs
  /\ idx' = idx + 1
  /\ UNCHANGED <<pc, files, arg, ret, observed>>

\* return logs
parse_files_return ==
  /\ pc = "loop"
  /\ idx = Len(files)
  /\ ret' = logs
  /\ pc' = "done"
  /\ UNCHANGED <<files, idx, data, geojson, logs, arg, observed>>

NextParse == parse_files_step \/ parse_files_return

SpecParse == InitParse /\ [][NextParse]_vars

\* --- the routing rules as the specification lists them ---

RuleOrder == <<"geojson", "summary", "time", "age", "pop", "area">>

\* Does rule r match file f: by a marker in the name, or by header tokens.
RuleMatches(r, f) ==
  LET cols == Join(f.df.columns) IN
  CASE r = "geojson" -> EndsWith(f.name, <<".", "j", "s", "o", "n">>) \/ EndsWith(f.name, <<".", "g", "e", "o", "j", "s", "o", "n">>)
    [] r = "summary" -> Contains(BAOBIAO, f.name) \/ (Contains(BINGZHONG, cols) /\ Contains(BENQI, cols))
    [] r = "time"    -> Contains(SHIJIAN, f.name) \/ (Contains(SHIJIAN, cols) /\ Contains(FABING, cols))
    [] r = "age"     -> Contains(NIANLING, f.name) \/ Contains(NAN, cols)
    [] r = "pop"     -> Contains(RENQUN, f.name) \/ Contains(ZHIYE, cols)
    [] r = "area"    -> Contains(DIQU, f.name) \/ Contains(XIANGZHEN, cols) \/ Contains(JIEDAO, cols)

MatchingRules(f) == {k \in 1..Len(RuleOrder) : RuleMatches(RuleOrder[k], f)}

\* The earliest rule that matches f, or "none".
FirstMatch(f) ==
  IF MatchingRules(f) = {} THEN "none"
  ELSE RuleOrder[CHOOSE k \in MatchingRules(f) : \A j \in MatchingRules(f) : k <= j]

\* The file the step from this state processes.
CurrentFile == Uploads[files[idx + 1]]

\* C1: every file processed is stored, if at all, in the slot of the first rule
\* it matches in the order geometry, summary, time, age, population, area; every
\* other slot is left as it was, and a file no rule matches changes no slot.
C1_FirstMatchWins ==
  [][ idx' = idx + 1 =>
        LET r == FirstMatch(CurrentFile) IN
        /\ \A role \in Roles \ {r} : data'[role] = data[role]
        /\ (r # "geojson" => geojson' = geojson)
        /\ (Len(logs') > Len(logs) /\ logs'[Len(logs')].mark = "stored" =>
              /\ logs'[Len(logs')].what = r
              /\ IF r = "geojson" THEN geojson' # None ELSE data'[r] # None) ]_vars

\* A file that matches two rules has been stored in the slot of the earlier
\* one, and the slot of the later one is still empty.
C1_Witness ==
  /\ idx >= 1
  /\ Cardinality(MatchingRules(Uploads[files[idx]])) >= 2
  /\ FirstMatch(Uploads[files[idx]]) = "summary"
  /\ data["summary"] # None
  /\ RuleMatches("time", Uploads[files[idx]]) /\ data["time"] = None

\* The files processed so far that were stored for a slot, by position.
Hits(slot) == {k \in 1..idx : UploadOutcome[observed][files[k]].slot = slot}

Last(S) == CHOOSE k \in S : \A j \in S : j <= k

\* All orderings of 1..n.
Perms(n) == {p \in [1..n -> 1..n] : \A i, j \in 1..n : i # j => p[i] # p[j]}

\* Each slot holds the table of the last file stored for it, and nothing when
\* no file was; once the batch is done, every reordering of the batch fills
\* the same slots, and fills a slot only one file was stored for alike.
C2_Slots ==
  /\ \A role \in Roles :
       /\ Len(data[role]) <= 1
       /\ data[role] = IF Hits(role) = {} THEN None
                       ELSE <<UploadOutcome[observed][files[Last(Hits(role))]].value>>
  /\ Len(geojson) <= 1
  /\ geojson = IF Hits("geojson") = {} THEN None
               ELSE <<UploadOutcome[observed][files[Last(Hits("geojson"))]].value>>
  /\ pc = "done" =>
       \A p \in Perms(Len(files)) :
         LET other == AfterBatch([k \in 1..Len(files) |-> files[p[k]]]) IN
         /\ \A role \in Roles :
              /\ (other.data[role] = None) <=> (data[role] = None)
              /\ Cardinality(Hits(role)) <= 1 => other.data[role] = data[role]
         /\ (other.geojson = None) <=> (geojson = None)
         /\ Cardinality(Hits("geojson")) <= 1 => other.geojson = geojson

\* C2: after any files of a batch, each role slot and the geometry slot holds
\* exactly the processed table of the last file stored for it (last write wins,
\* no merge), at most one table, and a slot once filled is never empty again;
\* batches that differ only in order fill the same slots and can differ only in
\* a slot several files were stored for.
C2_LastWriteWins ==
  /\ []C2_Slots
  /\ [][ /\ \A role \in Roles : data[role] # None => data'[role] # None
         /\ geojson # None => geojson' # None ]_vars

\* Two different files were stored for the summary slot; it holds the table of
\* the second.
C2_Witness ==
  /\ pc = "done"
  /\ Cardinality(Hits("summary")) = 2
  /\ \E j, k \in Hits("summary") : j < k /\ files[j] # files[k]
                                    /\ data["summary"] = <<UploadOutcome[observed][files[k]].value>>
                                    /\ data["summary"] # <<UploadOutcome[observed][files[j]].value>>

\* Did the loop body raise for the file at position i of the list.
Fails(i) == UploadOutcome[observed][i].log # <<>> /\ UploadOutcome[observed][i].log[1].mark = "error"

\* C3: a file whose reading, routing or transforming raises does not abort the
\* batch: it changes no slot, an error entry naming it is appended to the log,
\* and every other file is stored and logged as if the failing files were not
\* in the batch.
C3_ErrorsIsolated ==
  LET seen == SubSeq(files, 1, idx)
      good == SelectSeq(seen, LAMBDA i : ~Fails(i))
      bad  == SelectSeq(seen, LAMBDA i : Fails(i))
      errs == SelectSeq(logs, LAMBDA e : e.mark = "error")
  IN
  /\ data = AfterBatch(good).data
  /\ geojson = AfterBatch(good).geojson
  /\ SelectSeq(logs, LAMBDA e : e.mark # "error") = AfterBatch(good).logs
  /\ [k \in 1..Len(errs) |-> errs[k].name] = [k \in 1..Len(bad) |-> Uploads[bad[k]].name]
  /\ (pc = "done" => idx = Len(files) /\ ret = logs)

\* A file whose transformation raised was followed by a file that was stored.
C3_Witness ==
  /\ pc = "done"
  /\ Len(files) = 2
  /\ Fails(files[1]) /\ Uploads[files[1]].ok
  /\ UploadOutcome[observed][files[2]].slot = "pop"
  /\ data["pop"] # None
  /\ Len(ret) = 2 /\ ret[1].mark = "error" /\ ret[2].mark = "stored"

\* C4: the returned log holds exactly one entry per file, in batch order: a
\* stored, a skipped or an error entry.
C4_OneEntryPerFile ==
  pc = "done" =>
    /\ Len(ret) = Len(files)
    /\ \A k \in 1..Len(files) : ret[k].name = Uploads[files[k]].name

====
